---- MODULE Spec2Model ----
(***************************************************************************)
(* HSAMI+ : the orchestrator hsami2 (initialisation, 365-step warm-up,     *)
(* main loop) and the one-step driver hsami2_noyau with the sub-models it  *)
(* chains, as a state machine.                                             *)
(*                                                                         *)
(* Representation.                                                         *)
(*  - Python sequences are indexed from 0, TLA+ sequences from 1: the      *)
(*    element x[i] of the source is x[i+1] here.  Loop indices (i_pas)     *)
(*    keep the 0-based value of the source.                                *)
(*  - Water depths are integers in hundredths of a centimetre.  Fractions  *)
(*    (param[0], param[14..18], occupation) are integer percentages.       *)
(*    A product x*f is the floor of x*f/100 and the matching x*(1-f) is    *)
(*    the remainder x - x*f, so the fixed-point rounding neither creates   *)
(*    nor destroys water.                                                  *)
(*  - A ratio of areas (ratio_bassin, ratio_reservoir, ratio_fixe) is      *)
(*    stored as its numerator in km2 over superficie[0].                   *)
(*  - The columns 0 and 2 of eau_hydrogrammes and the intermediate reserve *)
(*    are stored multiplied by the sum of the unnormalised hydrograph      *)
(*    weights (PoidsTotal), so that multiplying by a normalised weight is  *)
(*    exact.  Column 1 holds raw depths.                                   *)
(*  - A flow Q in m3/s is stored as 8.64 * PoidsTotal * Q, and a mass      *)
(*    balance residual as superficie[0] * PoidsTotal * residual.  One unit *)
(*    of a stored residual is far above the 1e-10 of the final np.round,   *)
(*    so a stored residual is zero exactly when the rounded one is.        *)
(*  - Module selections are strings; the numeric selections 0 and 1 of     *)
(*    the source are the strings "0" and "1".                              *)
(*  - A dict whose keys may be absent is a function with a varying domain. *)
(*  - The nested dict etat[een] of the banded snow models is one heap      *)
(*    object: etat holds its address and tas holds its content.            *)
(*                                                                         *)
(* Input domain.  Rows are warm and snow free for the lumped snow models   *)
(* (een hsami, dj); the banded model mdj is also run on a cold snowfall    *)
(* row.  Inputs left outside: sol = 3couches, een = alt, a wetland with a  *)
(* positive area, MyLake with a banded snow model, ponded Green-Ampt.      *)
(***************************************************************************)
EXTENDS Integers, Sequences, FiniteSets, TLC

VARIABLES
    projet,      \* the caller's project dict (mutable, shared with hsami2)
    projet0,     \* history: the project as it was when hsami2 was called
    pc,          \* position of hsami2
    erreur,      \* the exception that ended the run, if any
    i_pas,       \* loop index of the warm-up / main loop
    pas,         \* sub-daily step counter
    etat,        \* the state dict
    tas,         \* heap: content of the nested dict etat[een]
    etat_avant,  \* history: etat and tas handed to the last driver call
    appel,       \* history: number, row and pas of the last driver call
    termines,    \* history: number of driver calls that returned
    s,           \* output series
    etats,       \* state series
    deltas       \* mass balance series

vars == <<projet, projet0, pc, erreur, i_pas, pas, etat, tas, etat_avant,
          appel, termines, s, etats, deltas>>

-----------------------------------------------------------------------------
(* Bounds of the model *)

\* rows of meteorology beyond the length of the warm-up
MaxSupp == 2

\* largest number of time steps per day
MaxPas == 2

\* number of successive calls of hsami_glace
MaxGlace == 10

-----------------------------------------------------------------------------
(* Program constants *)

\* length of the warm-up, range(365)
NbChauffe == 365

\* upper index of the slice eau_hydrogrammes[0:9, 1]
TrancheInter == 9

\* initial albedo of a band, 0.9, and albedo of bare ground, 0.15 (percent)
AlbedoInitial == 90

AlbedoSolNu == 15

\* start of the glaciological winter (degree-days) and stagnation length;
\* degree-days of frost are counted in quarters of a degree, the mean of
\* t_min and t_max/2 being (2*t_min + t_max)/4
HIVERGLACIO == -200

QuartDegre == 4

\* initial frost objective: etat["obj_gel"] = -200
ObjGelInitial == -200

NBJ == 21

\* density of ice, 0.916 (per thousand)
densite_glace == 916

\* 2*k_i*86400/(rho_i*Lf) of MyLake in units of 1e-8 m2 per quarter degree
CroissanceGlace == 31629

\* the thickness 1/10 m of MyLake in units of 1e-4 m
DixiemeMetre == 1000

\* np.nan: a marker below every depth, skipped by nansum
NaN == -1

Aucune == [type |-> "", lieu |-> ""]

Exception(type, lieu) == [type |-> type, lieu |-> lieu]

-----------------------------------------------------------------------------
(* Helpers *)

Max(a, b) == IF a >= b THEN a ELSE b

Min(a, b) == IF a <= b THEN a ELSE b

RECURSIVE Somme(_, _, _)
\* sum of x[debut:fin] (Python slice, 0-based, clipped to the sequence)
Somme(x, debut, fin) ==
    IF debut >= fin \/ debut >= Len(x) THEN 0
    ELSE x[debut + 1] + Somme(x, debut + 1, fin)

SommeTout(x) == Somme(x, 0, Len(x))

RECURSIVE Puissance2(_)
Puissance2(n) == IF n = 0 THEN 1 ELSE 2 * Puissance2(n - 1)

\* x * f for a percentage f
Fraction(x, f) == (x * f) \div 100

\* the element of a one-element set
Seul(S) == CHOOSE x \in S : TRUE

\* integer square root
\* the largest r of lo..hi with r * r <= x
RECURSIVE RacineEntre(_, _, _)
RacineEntre(x, lo, hi) ==
    IF lo = hi THEN lo
    ELSE LET mid == (lo + hi + 1) \div 2
         IN  IF mid * mid <= x THEN RacineEntre(x, mid, hi)
             ELSE RacineEntre(x, lo, mid - 1)

Racine(x) == RacineEntre(x, 0, Min(x, 46340))

-----------------------------------------------------------------------------
(* Projects *)

\* projet["param"]; only the entries read by the modelled code are present.
\* param[19] is the product mode*forme of the hydrograph law, and forme is
\* such that exp(-forme/nb_pas) = 1/2; param[21], param[22] are the same.
\* param[26] is the whole Dingman coefficient k/nb_pas*sy*exp(-k/nb_pas).
param ==
    (0 :> 50) @@ (4 :> 0) @@ (8 :> 50) @@ (9 :> 400) @@ (10 :> 100) @@
    (11 :> 200) @@ (12 :> 1000) @@ (13 :> 1000) @@ (14 :> 25) @@
    (15 :> 50) @@ (16 :> 20) @@ (17 :> 10) @@ (18 :> 50) @@ (19 :> 1) @@
    (23 :> 50) @@ (26 :> 10) @@ (30 :> 0) @@ (31 :> 0) @@ (34 :> 1000) @@
    (46 :> 3)

\* meteorological rows <<t_min, t_max, pluie, neige>>
LigneBase == <<10, 20, 40, 0>>

LigneInversee == <<20, 10, 40, 0>>

LigneNeigeFroide == <<-10, 4, 0, 30>>

LigneSeche == <<10, 20, 0, 0>>

\* a list of n rows, all equal to commune except the row number indice
\* (counted from 1; 0 when there is none), which holds speciale
SerieMeteo(n, indice, speciale) ==
    [n |-> n, commune |-> LigneBase, indice |-> indice, speciale |-> speciale]

\* serie[i]
Ligne(serie, i) ==
    IF i + 1 = serie.indice THEN serie.speciale ELSE serie.commune

\* serie[i] = ligne, for a row that was read from serie[i]
EcrireLigne(serie, i, ligne) ==
    IF i + 1 = serie.indice THEN [serie EXCEPT !.speciale = ligne] ELSE serie

valeurs_default ==
    [etp_bassin |-> "hsami", etp_reservoir |-> "hsami", een |-> "hsami",
     infiltration |-> "hsami", qbase |-> "hsami", sol |-> "hsami",
     radiation |-> "hsami", reservoir |-> "0", mhumide |-> "0",
     glace_reservoir |-> "0"]

\* the accepted selections of the six process keys
Valides ==
    [etp_bassin |-> {"hsami", "blaney_criddle", "hamon", "linacre",
                     "kharrufa", "mohyse", "romanenko", "makkink", "turc",
                     "mcguinness_bordne", "abtew", "hargreaves",
                     "priestley_taylor"},
     etp_reservoir |-> {"hsami", "blaney_criddle", "hamon", "linacre",
                        "kharrufa", "mohyse", "romanenko", "makkink", "turc",
                        "mcguinness_bordne", "abtew", "hargreaves",
                        "priestley_taylor"},
     een |-> {"hsami", "dj", "mdj", "alt"},
     infiltration |-> {"hsami", "green_ampt", "scs_cn"},
     sol |-> {"hsami", "3couches"},
     qbase |-> {"hsami", "dingman"}]

ClesProcessus ==
    {"etp_bassin", "etp_reservoir", "een", "infiltration", "sol", "qbase"}

\* selections of the input domain
ModulesVariantes ==
    {valeurs_default, [k \in {} |-> ""]}
    \cup {[valeurs_default EXCEPT ![k] = "inconnu", !.reservoir = r] :
            k \in ClesProcessus, r \in {"0", "1"}}
    \cup {[valeurs_default EXCEPT !.infiltration = i] :
            i \in {"green_ampt", "scs_cn"}}
    \cup {[valeurs_default EXCEPT !.qbase = "dingman"]}
    \cup {[valeurs_default EXCEPT !.een = e, !.infiltration = i] :
            e \in {"dj", "mdj"}, i \in {"hsami", "inconnu"}}
    \cup {[valeurs_default EXCEPT !.glace_reservoir = g, !.reservoir = r,
                                  !.een = e] :
            g \in {"0", "stefan", "mylake", "inconnu"}, r \in {"0", "1"},
            e \in {"hsami", "mdj"}}
    \cup {[valeurs_default EXCEPT !.mhumide = "1"]}

Memoires == {9, 10, 11}

\* numbers of meteorological rows
Longueurs == {1, NbChauffe - 1} \cup {NbChauffe + k : k \in 0..MaxSupp}

Base ==
    [memoire |-> 10, nb_pas |-> 1, n |-> NbChauffe + 1,
     modules |-> valeurs_default, superficie |-> <<10, 2>>,
     niveau |-> FALSE, speciale |-> "aucune", indice |-> 0,
     nb_pas_numpy |-> FALSE]

Configurations ==
    {[Base EXCEPT !.memoire = m, !.nb_pas = p, !.nb_pas_numpy = (p > 1),
                  !.n = n] :
        m \in Memoires, p \in 1..MaxPas, n \in Longueurs}
    \cup {[Base EXCEPT !.nb_pas = p] : p \in 1..MaxPas}
    \cup {[Base EXCEPT !.modules = md, !.niveau = nv] :
            md \in ModulesVariantes, nv \in BOOLEAN}
    \cup {[Base EXCEPT !.superficie = <<10>>, !.modules.reservoir = r] :
            r \in {"0", "1"}}
    \cup {[Base EXCEPT !.speciale = "inversee", !.indice = i, !.n = n] :
            i \in {1, NbChauffe + 1}, n \in {1, NbChauffe + 1}}
    \cup {[Base EXCEPT !.speciale = "neige", !.indice = i,
                       !.modules.een = "mdj"] : i \in {1, NbChauffe + 1}}
    \cup {[Base EXCEPT !.speciale = "seche", !.indice = 1,
                       !.modules.een = e] : e \in {"hsami", "mdj"}}

\* inputs left outside the domain
HorsDomaine(c) ==
    LET md == c.modules @@ valeurs_default
    IN  \/ c.indice > c.n
        \/ /\ md.glace_reservoir = "mylake" /\ md.een = "mdj"
           /\ md.reservoir = "1" /\ c.niveau

Projet(c) ==
    [superficie |-> c.superficie,
     modules |-> c.modules,
     physio |-> [latitude |-> 45, samax |-> 0, occupation |-> <<50, 50>>,
                 coeff |-> <<0, 0, 2>>]
                @@ (IF c.niveau THEN [niveau |-> 1] ELSE [k \in {} |-> 0]),
     meteo |-> [bassin |-> SerieMeteo(c.n, c.indice,
                    CASE c.speciale = "inversee" -> LigneInversee
                      [] c.speciale = "neige" -> LigneNeigeFroide
                      [] c.speciale = "seche" -> LigneSeche
                      [] OTHER -> LigneBase),
                reservoir |-> SerieMeteo(c.n, c.indice,
                    CASE c.speciale = "inversee" -> LigneInversee
                      [] c.speciale = "seche" -> LigneSeche
                      [] OTHER -> LigneBase)],
     memoire |-> c.memoire,
     nb_pas_par_jour |-> c.nb_pas,
     nb_pas_numpy |-> c.nb_pas_numpy,
     param |-> param]

Projets == {Projet(c) : c \in {d \in Configurations : ~HorsDomaine(d)}}

-----------------------------------------------------------------------------
(* hsami_hydrogramme.py *)

\* unnormalised weights t^(mode*forme) * exp(-forme/nb_pas*t), t = 1..n,
\* multiplied by 2^n; the normalised weight is h[t] / SommeTout(h)
hsami_hydrogramme(mode_forme, n) ==
    [t \in 1..n |-> (IF mode_forme = 0 THEN 1 ELSE t) * Puissance2(n - t)]

\* sum of the unnormalised weights of a hydrograph of the project
PoidsTotal(p) == SommeTout(hsami_hydrogramme(p.param[19], p.memoire))

-----------------------------------------------------------------------------
(* hsami_etp.py *)

\* hourly weights, per thousand
poids ==
    <<5, 5, 5, 5, 5, 6, 11, 24, 40, 54, 70, 84, 96, 104, 109, 108, 99, 78,
      50, 20, 7, 5, 5, 5>>

\* 1000 * exp(0.019 * (t_min*9/5 + t_max*9/5 + 64)) by t_min + t_max
ExpEtp == (-6 :> 2748) @@ (30 :> 9412)

\* potential evapotranspiration of the step; an unknown formula leaves
\* etp_total unbound
hsami_etp(pas_, nb_pas, t_min, t_max, modules) ==
    IF modules \notin Valides.etp_bassin
    THEN [erreur |-> Exception("UnboundLocalError", "hsami_etp.py:117"),
          etp |-> 0]
    ELSE LET etp_total ==
                 CASE modules = "hsami" ->
                     ((t_max - t_min) * 297 * ExpEtp[t_min + t_max])
                         \div 1000000
             debut == ((pas_ - 1) * 24) \div nb_pas
             fin == (pas_ * 24) \div nb_pas
         IN  [erreur |-> Aucune,
              etp |-> (Max(0, etp_total) * Somme(poids, debut, fin))
                          \div 1000]

-----------------------------------------------------------------------------
(* hsami_glace.py *)

\* np.nansum of a vector of depths
nansum(x) == SommeTout([i \in DOMAIN x |-> IF x[i] = NaN THEN 0 ELSE x[i]])

\* np.sum of the sparse vector eeg (index |-> nonzero depth)
SommeEeg(eeg) ==
    LET RECURSIVE S(_)
        S(d) == IF d = {} THEN 0
                ELSE LET i == CHOOSE j \in d : TRUE IN eeg[i] + S(d \ {i})
    IN  S(DOMAIN eeg)

\* Stefan with a thaw declared after more than NBJ steps of stagnation
Stefan_apres_NBJ(meteo, k, physio, etats_) ==
    LET niveau == physio.niveau
        coeff == physio.coeff
        somme == 2 * meteo[1] + meteo[2]
        moyenneGel == IF somme >= 0 THEN 0 ELSE somme
        cumdegGel == etats_.cumdegGel + moyenneGel
        sr0 == etats_.reservoir_superficie
        sg0 == etats_.reservoir_superficie_glace
        ep0 == etats_.reservoir_epaisseur_glace
        sr1 == IF niveau = NaN THEN sr0
               ELSE coeff[1] * niveau * niveau + coeff[2] * niveau + coeff[3]
        gele == cumdegGel < etats_.obj_gel
        ecart == IF cumdegGel >= etats_.obj_gel THEN cumdegGel - etats_.obj_gel
                 ELSE etats_.obj_gel - cumdegGel
        ep1 == IF gele THEN k * 50 * Racine(ecart) ELSE 0
        supref == IF gele /\ ep0 = 0 THEN sr0
                  ELSE etats_.reservoir_superficie_ref
        dernier_gel == IF ~gele THEN etats_.dernier_gel
                       ELSE IF moyenneGel = 0 THEN etats_.dernier_gel + 1
                       ELSE 0
        obj_gel == IF gele /\ dernier_gel > NBJ
                   THEN QuartDegre * HIVERGLACIO + cumdegGel
                   ELSE etats_.obj_gel
        sg1 == IF gele THEN Max(0, supref - sr1) ELSE 0
    IN  [superficie_glace |-> <<sg0, sg1>>,
         superficie_reservoir |-> <<sr0, sr1>>,
         etats |-> [etats_ EXCEPT !.reservoir_superficie = sr1,
                                 !.reservoir_superficie_glace = sg1,
                                 !.reservoir_epaisseur_glace = ep1,
                                 !.dernier_gel = dernier_gel,
                                 !.reservoir_superficie_ref = supref,
                                 !.obj_gel = obj_gel,
                                 !.cumdegGel = cumdegGel]]

\* ice cover and area of the reservoir from the frost degree-days.  The
\* thickness is returned in units of 1e-4 m.
Stefan(meteo, k, physio, etats_) ==
    LET niveau == physio.niveau
        coeff == physio.coeff
        somme == 2 * meteo[1] + meteo[2]
        moyenneGel == IF somme >= 0 THEN 0 ELSE somme
        cumdegGel == etats_.cumdegGel + moyenneGel
        sr0 == etats_.reservoir_superficie
        sg0 == etats_.reservoir_superficie_glace
        ep0 == etats_.reservoir_epaisseur_glace
        sr1 == IF niveau = NaN THEN sr0
               ELSE coeff[1] * niveau * niveau + coeff[2] * niveau + coeff[3]
        gele == cumdegGel < etats_.obj_gel
        ecart == IF cumdegGel >= etats_.obj_gel THEN cumdegGel - etats_.obj_gel
                 ELSE etats_.obj_gel - cumdegGel
        ep1 == IF gele THEN k * 50 * Racine(ecart) ELSE 0
        supref == IF gele /\ ep0 = 0 THEN sr0
                  ELSE etats_.reservoir_superficie_ref
        dernier_gel == IF ~gele THEN etats_.dernier_gel
                       ELSE IF moyenneGel = 0 THEN etats_.dernier_gel + 1
                       ELSE 0
        obj_gel == IF gele /\ dernier_gel >= NBJ
                   THEN QuartDegre * HIVERGLACIO + cumdegGel
                   ELSE etats_.obj_gel
        sg1 == IF gele THEN Max(0, supref - sr1) ELSE 0
    IN  [superficie_glace |-> <<sg0, sg1>>,
         superficie_reservoir |-> <<sr0, sr1>>,
         etats |-> [etats_ EXCEPT !.reservoir_superficie = sr1,
                                 !.reservoir_superficie_glace = sg1,
                                 !.reservoir_epaisseur_glace = ep1,
                                 !.dernier_gel = dernier_gel,
                                 !.reservoir_superficie_ref = supref,
                                 !.obj_gel = obj_gel,
                                 !.cumdegGel = cumdegGel]]

\* ice cover and area of the reservoir from the heat conduction through the
\* ice, on a reservoir without ice, or with bare ice on a cold step.  The
\* thickness is returned in units of 1e-4 m, the energy of the ice in units
\* of rho_i * c_i / 4 * 1e-4 J/m2.
MyLake(meteo, physio, etat_, tas_, modules) ==
    LET niveau == physio.niveau
        coeff == physio.coeff
        sr0 == etat_.reservoir_superficie
        sg0 == etat_.reservoir_superficie_glace
        ep0 == etat_.reservoir_epaisseur_glace \div 100
        bande == tas_[etat_[modules.een]]
        couvert == bande.couvert_neige[Len(bande.couvert_neige)]
        sr1 == IF niveau = NaN THEN sr0
               ELSE coeff[1] * niveau * niveau + coeff[2] * niveau + coeff[3]
        supref == IF ep0 = 0 THEN sr0 ELSE etat_.reservoir_superficie_ref
        \* four times Ta and four times Ti
        Ta == 2 * meteo[1] + meteo[2]
        Ti == IF ep0 > 0 THEN (Ta * ep0) \div (ep0 + DixiemeMetre) ELSE Ta
        ep1 == CASE Ta <= 0 /\ (ep0 = 0 \/ couvert = 0) ->
                       Racine(ep0 * ep0 + CroissanceGlace * (-Ti))
                 [] Ta > 0 /\ ep0 = 0 -> 0
        energie == IF Ta <= 0 THEN Ti * ep1 ELSE 0
        sg1 == Max(0, supref - sr1)
    IN  [superficie_glace |-> <<sg0, sg1>>,
         superficie_reservoir |-> <<sr0, sr1>>,
         etats |-> [etat_ EXCEPT !.reservoir_superficie = sr1,
                                 !.reservoir_superficie_glace = sg1,
                                 !.reservoir_epaisseur_glace = ep1,
                                 !.reservoir_superficie_ref = supref,
                                 !.reservoir_energie_glace = energie]]

\* variant of hsami_glace whose ratio_bassin keeps the nominal area of the
\* reservoir
hsami_glace_ratio_nominal(modules, superficie, etats_, tas_, varargin) ==
    IF /\ modules.reservoir = "1" /\ Len(varargin) > 2
       /\ modules.glace_reservoir = "mylake"
       /\ modules.een \notin {"mdj", "alt"}
    THEN [erreur |-> Exception("ValueError", "hsami_glace.py:69"),
          etats |-> etats_, glace_vers_reservoir |-> 0,
          bassin_vers_reservoir |-> 0]
    ELSE IF /\ modules.reservoir = "1" /\ Len(varargin) > 2
            /\ modules.glace_reservoir \notin {"stefan", "mylake"}
    THEN [erreur |-> Exception("ValueError", "hsami_glace.py:71"),
          etats |-> etats_, glace_vers_reservoir |-> 0,
          bassin_vers_reservoir |-> 0]
    ELSE
    LET variable == modules.reservoir = "1" /\ Len(varargin) > 2
        Depot(glace) ==
            LET e1 == IF variable
                      THEN [glace.etats EXCEPT
                              !.reservoir_epaisseur_glace = @ * 100,
                              !.ratio_reservoir =
                                  glace.superficie_reservoir[2],
                              !.ratio_bassin = superficie[1] - superficie[2],
                              !.ratio_fixe = superficie[1] - superficie[2]]
                      ELSE IF modules.reservoir = "1"
                      THEN [etats_ EXCEPT
                              !.reservoir_epaisseur_glace = 0,
                              !.reservoir_superficie_glace = 0,
                              !.ratio_reservoir = superficie[2],
                              !.ratio_bassin = superficie[1] - superficie[2],
                              !.ratio_fixe = superficie[1] - superficie[2]]
                      ELSE [etats_ EXCEPT
                              !.reservoir_epaisseur_glace = 0,
                              !.reservoir_superficie_glace = 0,
                              !.ratio_reservoir = 0,
                              !.ratio_bassin = superficie[1],
                              !.ratio_fixe = superficie[1]]
                sg == glace.superficie_glace
                delta_glace == sg[2] - sg[1]
                delta_reservoir ==
                    glace.superficie_reservoir[2]
                        - glace.superficie_reservoir[1]
                \* the cells of the slice eeg[ind1:ind2]
                depot == IF delta_glace > 0 THEN (sg[1] + 1)..(sg[2] - 1)
                         ELSE IF delta_glace < 0 THEN (sg[2] + 1)..(sg[1] - 1)
                         ELSE {}
                couche == (e1.reservoir_epaisseur_glace * densite_glace)
                              \div 100000
                eeg == IF delta_glace > 0
                       THEN [i \in IF couche = 0 THEN (DOMAIN e1.eeg) \ depot
                                   ELSE (DOMAIN e1.eeg) \cup depot |->
                                IF i \in depot THEN couche ELSE e1.eeg[i]]
                       ELSE [i \in (DOMAIN e1.eeg) \ depot |-> e1.eeg[i]]
                restitue ==
                    SommeEeg([i \in depot \cap DOMAIN e1.eeg |-> e1.eeg[i]])
            IN  [erreur |-> Aucune,
                 etats |-> [e1 EXCEPT !.eeg = eeg],
                 glace_vers_reservoir |->
                     IF delta_glace > 0 THEN -(couche * Cardinality(depot))
                     ELSE restitue,
                 \* delta_reservoir * neige_au_sol, times superficie[0]
                 bassin_vers_reservoir |-> delta_reservoir * e1.neige_au_sol]
    IN  Seul({Depot(glace) : glace \in
          {CASE variable /\ modules.glace_reservoir = "stefan" ->
                  Stefan(varargin[1].reservoir, varargin[3][46], varargin[2],
                         etats_)
             [] variable /\ modules.glace_reservoir = "mylake" ->
                  MyLake(varargin[1].reservoir, varargin[2], etats_, tas_,
                         modules)
             [] ~variable ->
                  [superficie_glace |-> <<0, 0>>,
                   superficie_reservoir |-> <<0, 0>>, etats |-> etats_]}})

\* varargin is <<>> or <<meteo, physio, param>>
hsami_glace(modules, superficie, etats_, tas_, varargin) ==
    IF /\ modules.reservoir = "1" /\ Len(varargin) > 2
       /\ modules.glace_reservoir = "mylake"
       /\ modules.een \notin {"mdj", "alt"}
    THEN [erreur |-> Exception("ValueError", "hsami_glace.py:69"),
          etats |-> etats_, glace_vers_reservoir |-> 0,
          bassin_vers_reservoir |-> 0]
    ELSE IF /\ modules.reservoir = "1" /\ Len(varargin) > 2
            /\ modules.glace_reservoir \notin {"stefan", "mylake"}
    THEN [erreur |-> Exception("ValueError", "hsami_glace.py:71"),
          etats |-> etats_, glace_vers_reservoir |-> 0,
          bassin_vers_reservoir |-> 0]
    ELSE
    LET variable == modules.reservoir = "1" /\ Len(varargin) > 2
        Depot(glace) ==
            LET e1 == IF variable
                      THEN [glace.etats EXCEPT
                              !.reservoir_epaisseur_glace = @ * 100,
                              !.ratio_reservoir =
                                  glace.superficie_reservoir[2],
                              !.ratio_bassin =
                                  superficie[1] - glace.superficie_reservoir[2],
                              !.ratio_fixe = superficie[1] - superficie[2]]
                      ELSE IF modules.reservoir = "1"
                      THEN [etats_ EXCEPT
                              !.reservoir_epaisseur_glace = 0,
                              !.reservoir_superficie_glace = 0,
                              !.ratio_reservoir = superficie[2],
                              !.ratio_bassin = superficie[1] - superficie[2],
                              !.ratio_fixe = superficie[1] - superficie[2]]
                      ELSE [etats_ EXCEPT
                              !.reservoir_epaisseur_glace = 0,
                              !.reservoir_superficie_glace = 0,
                              !.ratio_reservoir = 0,
                              !.ratio_bassin = superficie[1],
                              !.ratio_fixe = superficie[1]]
                sg == glace.superficie_glace
                delta_glace == sg[2] - sg[1]
                delta_reservoir ==
                    glace.superficie_reservoir[2]
                        - glace.superficie_reservoir[1]
                \* the cells of the slice eeg[ind1:ind2]
                depot == IF delta_glace > 0 THEN (sg[1] + 1)..(sg[2] - 1)
                         ELSE IF delta_glace < 0 THEN (sg[2] + 1)..(sg[1] - 1)
                         ELSE {}
                couche == (e1.reservoir_epaisseur_glace * densite_glace)
                              \div 100000
                eeg == IF delta_glace > 0
                       THEN [i \in IF couche = 0 THEN (DOMAIN e1.eeg) \ depot
                                   ELSE (DOMAIN e1.eeg) \cup depot |->
                                IF i \in depot THEN couche ELSE e1.eeg[i]]
                       ELSE [i \in (DOMAIN e1.eeg) \ depot |-> e1.eeg[i]]
                restitue ==
                    SommeEeg([i \in depot \cap DOMAIN e1.eeg |-> e1.eeg[i]])
            IN  [erreur |-> Aucune,
                 etats |-> [e1 EXCEPT !.eeg = eeg],
                 glace_vers_reservoir |->
                     IF delta_glace > 0 THEN -(couche * Cardinality(depot))
                     ELSE restitue,
                 \* delta_reservoir * neige_au_sol, times superficie[0]
                 bassin_vers_reservoir |-> delta_reservoir * e1.neige_au_sol]
    IN  Seul({Depot(glace) : glace \in
          {CASE variable /\ modules.glace_reservoir = "stefan" ->
                  Stefan(varargin[1].reservoir, varargin[3][46], varargin[2],
                         etats_)
             [] variable /\ modules.glace_reservoir = "mylake" ->
                  MyLake(varargin[1].reservoir, varargin[2], etats_, tas_,
                         modules)
             [] ~variable ->
                  [superficie_glace |-> <<0, 0>>,
                   superficie_reservoir |-> <<0, 0>>, etats |-> etats_]}})

-----------------------------------------------------------------------------
(* hsami_interception.py *)

\* lumped snow models hsami and dj, on a warm step without snow or frost
dj_hsami(modules, meteo, etat_, temp_fonte_jour, demande_eau, demande_reservoir) ==
    LET t_max == meteo.bassin[2]
        pluie == meteo.bassin[3]
        neige == meteo.bassin[4]
        derniere_neige == IF etat_.neige_au_sol > 0 /\ neige <= 0
                          THEN etat_.derniere_neige + 1 ELSE 0
        neige_au_sol == etat_.neige_au_sol + neige
        neige_au_sol_totale == etat_.nas_tot + neige
        dt_max == t_max - temp_fonte_jour
    IN  CASE dt_max >= 0 /\ etat_.gel = 0 /\ neige_au_sol = 0 ->
            [eau_surface |-> pluie,
             demande_eau |-> demande_eau,
             etat |-> [etat_ EXCEPT !.neige_au_sol = neige_au_sol,
                                    !.nas_tot = neige_au_sol_totale,
                                    !.derniere_neige = derniere_neige],
             etr |-> <<0, 0, 0, 0, demande_reservoir>>,
             apport_vertical |->
                 <<0, 0, 0,
                   meteo.reservoir[3] + meteo.reservoir[4]
                       - demande_reservoir, 0>>]

\* one band of the banded snow models: the new content of the band record,
\* or the failure of the step.  Depths in metres are in units of 1e-4 m.
BandeMdj(param_, meteo, etat_, bande, i_z) ==
    LET t_min == meteo.bassin[1]
        t_max == meteo.bassin[2]
        pluie == meteo.bassin[3]
        neige == meteo.bassin[4]
        temperature_de_fonte == param_[30 + i_z]
        dt_max == t_max - temperature_de_fonte
    IN  IF (bande.neige_au_sol[i_z + 1] > 0 \/ neige > 0)
           /\ t_min + t_max < 2 * temperature_de_fonte
        THEN [erreur |-> Exception("UnboundLocalError",
                                   "hsami_interception.py:1095"),
              bande |-> bande, eau_surface |-> 0]
        ELSE CASE dt_max > 0 /\ etat_.gel = 0
                  /\ bande.neige_au_sol[i_z + 1] = 0 /\ neige = 0 ->
            [erreur |-> Aucune,
             eau_surface |-> pluie,
             bande |-> [bande EXCEPT !.neige_au_sol[i_z + 1] = 0,
                                     !.couvert_neige[i_z + 1] = 0,
                                     !.densite_neige[i_z + 1] = 0,
                                     !.fonte[i_z + 1] = 0,
                                     !.albedo_neige[i_z + 1] = AlbedoSolNu,
                                     !.energie_neige[i_z + 1] = 0,
                                     !.sol[i_z + 1] = etat_.sol[1],
                                     !.gel[i_z + 1] = etat_.gel]]

RECURSIVE BandesMdj(_, _, _, _, _, _)
\* the loop over the bands i_z..n-1: the record is written band by band
BandesMdj(param_, meteo, etat_, bande, i_z, n) ==
    IF i_z >= n THEN [erreur |-> Aucune, bande |-> bande, zones |-> <<>>]
    ELSE LET b == BandeMdj(param_, meteo, etat_, bande, i_z)
             r == BandesMdj(param_, meteo, etat_, b.bande, i_z + 1, n)
         IN  IF b.erreur # Aucune
             THEN [erreur |-> b.erreur, bande |-> b.bande, zones |-> <<>>]
             ELSE [erreur |-> r.erreur, bande |-> r.bande,
                   zones |-> <<b.eau_surface>> \o r.zones]

\* sum of x[i] * occupation[i], occupation in percent
Pondere(x, occupation) ==
    SommeTout([i \in DOMAIN x |-> x[i] * occupation[i]]) \div 100

mdj_alt(param_, modules, meteo, physio, etat_, tas_, demande_eau, demande_reservoir) ==
    LET occupation == physio.occupation
        n == Len(occupation)
        adresse == etat_[modules.een]
        derniere_neige ==
            IF etat_.neige_au_sol > 0 /\ meteo.bassin[4] <= 0
            THEN etat_.derniere_neige + 1 ELSE 0
        b == BandesMdj(param_, meteo, etat_, tas_[adresse], 0, n)
        tas1 == [tas_ EXCEPT ![adresse] = b.bande]
    IN  IF b.erreur # Aucune
        THEN [erreur |-> b.erreur, etat |-> etat_, tas |-> tas1,
              eau_surface |-> 0, demande_eau |-> 0, etr |-> <<>>,
              apport_vertical |-> <<>>]
        ELSE [erreur |-> Aucune,
              eau_surface |-> Pondere(b.zones, occupation),
              demande_eau |->
                  Pondere([i \in 1..n |-> demande_eau], occupation),
              etat |-> [etat_ EXCEPT
                  !.neige_au_sol = Pondere(b.bande.neige_au_sol, occupation),
                  !.fonte = Pondere(b.bande.fonte, occupation),
                  !.derniere_neige = derniere_neige,
                  !.gel = Pondere(b.bande.gel, occupation),
                  !.sol[1] = Pondere(b.bande.sol, occupation)],
              tas |-> tas1,
              etr |-> <<0, 0, 0, 0, demande_reservoir>>,
              apport_vertical |->
                  <<0, 0, 0,
                    meteo.reservoir[3] + meteo.reservoir[4]
                        - demande_reservoir, 0>>]

hsami_interception(nb_pas, param_, meteo, etp, etat_, tas_, modules, physio) ==
    LET demande_eau == Fraction(etp[1], param_[0])
        demande_reservoir == Fraction(etp[2], param_[0])
        echec(e) == [erreur |-> e, etat |-> etat_, tas |-> tas_,
                     eau_surface |-> 0, demande_eau |-> 0, etr |-> <<>>,
                     apport_vertical |-> <<>>]
    IN  IF modules.een \in {"hsami", "dj", "mdj", "alt"}
           /\ modules.sol \notin {"hsami", "3couches"}
        THEN echec(Exception("UnboundLocalError",
                             "hsami_interception.py:114"))
        ELSE IF modules.een \in {"hsami", "dj"}
        THEN [erreur |-> Aucune, tas |-> tas_]
             @@ dj_hsami(modules, meteo, etat_, param_[4], demande_eau,
                         demande_reservoir)
        ELSE IF modules.een \in {"mdj", "alt"}
        THEN mdj_alt(param_, modules, meteo, physio, etat_, tas_,
                     demande_eau, demande_reservoir)
        ELSE echec(Exception("UnboundLocalError",
                             "hsami_interception.py:178"))

-----------------------------------------------------------------------------
(* hsami_ruissellement_surface.py *)

\* variant of hsami_ruissellement_surface that does not keep the threshold
\* above seuil_min / nb_pas
hsami_ruissellement_surface_sans_seuil_min(nb_pas, param_, etat_, eau_surface, modules) ==
    IF modules.infiltration \in {"green_ampt", "scs_cn"}
    THEN [erreur |-> Aucune, ruissellement_surface |-> 0,
          infiltration |-> eau_surface]
    ELSE IF modules.infiltration = "hsami"
    THEN IF modules.sol \notin {"hsami", "3couches"}
         THEN [erreur |-> Exception("UnboundLocalError",
                                    "hsami_ruissellement_surface.py:57"),
               ruissellement_surface |-> 0, infiltration |-> 0]
         ELSE
         LET effet_gel == param_[8]
             effet_sol == param_[9]
             seuil_min == param_[10]
             sol_max == CASE modules.sol = "hsami" -> param_[12]
                          [] modules.sol = "3couches" ->
                                 Fraction(param_[39], param_[44])
             gel == etat_.gel
             sol == etat_.sol[1]
             seuil0 == (effet_sol * (sol_max - sol)) \div (nb_pas * sol_max)
                           - Fraction(gel, effet_gel)
             seuil == seuil0
             ruissellement_surface ==
                 IF eau_surface >= seuil
                 THEN (2 * eau_surface - seuil) \div 2
                 ELSE (eau_surface * eau_surface) \div (2 * seuil)
         IN  [erreur |-> Aucune,
              ruissellement_surface |-> ruissellement_surface,
              infiltration |-> eau_surface - ruissellement_surface]
    ELSE [erreur |-> Exception("UnboundLocalError",
                               "hsami_ruissellement_surface.py:74"),
          ruissellement_surface |-> 0, infiltration |-> 0]

hsami_ruissellement_surface(nb_pas, param_, etat_, eau_surface, modules) ==
    IF modules.infiltration \in {"green_ampt", "scs_cn"}
    THEN [erreur |-> Aucune, ruissellement_surface |-> 0,
          infiltration |-> eau_surface]
    ELSE IF modules.infiltration = "hsami"
    THEN IF modules.sol \notin {"hsami", "3couches"}
         THEN [erreur |-> Exception("UnboundLocalError",
                                    "hsami_ruissellement_surface.py:57"),
               ruissellement_surface |-> 0, infiltration |-> 0]
         ELSE
         LET effet_gel == param_[8]
             effet_sol == param_[9]
             seuil_min == param_[10]
             sol_max == CASE modules.sol = "hsami" -> param_[12]
                          [] modules.sol = "3couches" ->
                                 Fraction(param_[39], param_[44])
             gel == etat_.gel
             sol == etat_.sol[1]
             seuil0 == (effet_sol * (sol_max - sol)) \div (nb_pas * sol_max)
                           - Fraction(gel, effet_gel)
             seuil == Max(seuil0, seuil_min \div nb_pas)
             ruissellement_surface ==
                 IF eau_surface >= seuil
                 THEN (2 * eau_surface - seuil) \div 2
                 ELSE (eau_surface * eau_surface) \div (2 * seuil)
         IN  [erreur |-> Aucune,
              ruissellement_surface |-> ruissellement_surface,
              infiltration |-> eau_surface - ruissellement_surface]
    ELSE [erreur |-> Exception("UnboundLocalError",
                               "hsami_ruissellement_surface.py:74"),
          ruissellement_surface |-> 0, infiltration |-> 0]

-----------------------------------------------------------------------------
(* hsami_ecoulement_vertical.py *)

\* Green-Ampt below the ponding intensity; ks in hundredths of cm per day
green_ampt(eau_surface, ks, nb_pas) ==
    CASE eau_surface * nb_pas < ks ->
        [infiltration |-> eau_surface, ruissellement |-> 0]

\* Curve Number; s = (25400/cn - 254)/10 cm
scs_cn(eau_surface, cn) ==
    LET s_ == 254000 \div cn - 2540
        potentiel == ((5 * eau_surface - s_) * (5 * eau_surface - s_))
                         \div (5 * (5 * eau_surface + 4 * s_))
        ruissellement == Min(potentiel, eau_surface)
    IN  [infiltration |-> eau_surface - ruissellement,
         ruissellement |-> ruissellement]

\* variant of vidange_nappe that returns the base flow to the water table
vidange_nappe_restituee(apport, nappe, taux_vidange_nappe, nappe_max, nb_pas, modules, param_, sol) ==
    LET base == IF modules.qbase = "hsami"
                THEN (nappe * taux_vidange_nappe) \div (100 * nb_pas)
                ELSE IF modules.qbase = "dingman"
                THEN Fraction(nappe, param_[26])
                ELSE apport[1]
        nappe1 == IF modules.qbase \in {"hsami", "dingman"}
                  THEN nappe + base ELSE nappe
        trop == IF nappe1 > nappe_max THEN nappe1 - nappe_max ELSE 0
    IN  [apport |-> [apport EXCEPT ![1] = base, ![3] = @ + trop],
         nappe |-> nappe1 - trop,
         sol |-> sol]

\* a selection of qbase that is neither hsami nor dingman drains nothing
vidange_nappe(apport, nappe, taux_vidange_nappe, nappe_max, nb_pas, modules, param_, sol) ==
    LET base == IF modules.qbase = "hsami"
                THEN (nappe * taux_vidange_nappe) \div (100 * nb_pas)
                ELSE IF modules.qbase = "dingman"
                THEN Fraction(nappe, param_[26])
                ELSE apport[1]
        nappe1 == IF modules.qbase \in {"hsami", "dingman"}
                  THEN nappe - base ELSE nappe
        trop == IF nappe1 > nappe_max THEN nappe1 - nappe_max ELSE 0
    IN  [apport |-> [apport EXCEPT ![1] = base, ![3] = @ + trop],
         nappe |-> nappe1 - trop,
         sol |-> sol]

\* one-layer soil (modules.sol = hsami)
hsami_ecoulement_vertical(nb_pas, param_, etat_, offre, demande, modules, ruissellement_surface, apport_vertical, etr) ==
    IF modules.sol \notin {"hsami", "3couches"}
    THEN [erreur |-> Exception("UnboundLocalError",
                               "hsami_ecoulement_vertical.py:208"),
          apport |-> apport_vertical, etat |-> etat_, etr |-> etr]
    ELSE IF offre - demande > 0
            /\ modules.infiltration \notin {"green_ampt", "hsami", "scs_cn"}
    THEN [erreur |-> Exception("UnboundLocalError",
                               "hsami_ecoulement_vertical.py:135"),
          apport |-> apport_vertical, etat |-> etat_, etr |-> etr]
    ELSE CASE modules.sol = "hsami" ->
    LET sol_min == param_[11]
        sol_max == param_[12]
        nappe_max == param_[13]
        portion_ruissellement_surface == param_[14]
        portion_ruissellement_sol_max == param_[15]
        gel0 == etat_.gel
        sol0 == etat_.sol[1]
        ecart_offre_demande == offre - demande
        excedent == ecart_offre_demande > 0
        inf == CASE modules.infiltration = "green_ampt" ->
                      green_ampt(offre - demande, param_[34], nb_pas)
                 [] modules.infiltration = "hsami" ->
                      [infiltration |-> offre - demande,
                       ruissellement |-> ruissellement_surface]
                 [] modules.infiltration = "scs_cn" ->
                      scs_cn(offre - demande, param_[23])
        a1 == IF excedent
              THEN Fraction(inf.infiltration, portion_ruissellement_surface)
              ELSE apport_vertical[2]
        a2 == IF excedent THEN inf.ruissellement
              ELSE IF modules.infiltration = "hsami"
              THEN ruissellement_surface
              ELSE apport_vertical[3]
        evapo == IF excedent THEN demande ELSE offre
        pompage == IF excedent THEN 0
                   ELSE Min(sol0 - sol_min,
                            (sol0 * (demande - offre)) \div sol_max)
        sol1 == IF excedent THEN sol0 + (inf.infiltration - a1)
                ELSE sol0 - pompage
        v == vidange_nappe([apport_vertical EXCEPT ![2] = a1, ![3] = a2],
                           etat_.nappe, param_[17], nappe_max, nb_pas,
                           modules, param_, sol1)
        debordement_sol == v.sol + gel0 - sol_max
        deborde == debordement_sol > 0
        vers_inter == IF deborde
                      THEN Fraction(debordement_sol,
                                    portion_ruissellement_sol_max)
                      ELSE 0
        nappe2 == IF deborde THEN v.nappe + (debordement_sol - vers_inter)
                  ELSE v.nappe
        sol2 == IF deborde THEN v.sol - debordement_sol ELSE v.sol
        gel3 == IF deborde /\ sol2 < 0 THEN gel0 + sol2 ELSE gel0
        sol3 == IF deborde /\ sol2 < 0 THEN 0 ELSE sol2
        sol_vers_nappe == IF sol3 > sol_min
                          THEN ((sol3 - sol_min) * param_[16])
                                   \div (100 * nb_pas)
                          ELSE 0
    IN  [erreur |-> Aucune,
         apport |-> [v.apport EXCEPT ![2] = @ + vers_inter],
         etat |-> [etat_ EXCEPT !.gel = gel3,
                                !.sol[1] = sol3 - sol_vers_nappe,
                                !.nappe = nappe2 + sol_vers_nappe],
         etr |-> [etr EXCEPT ![3] = evapo, ![4] = pompage]]

\* 10 ** p
RECURSIVE Puissance10(_)
Puissance10(p) == IF p = 0 THEN 1 ELSE 10 * Puissance10(p - 1)

\* ks * (sol / sol_max) ** c
RECURSIVE Conductivite(_, _, _, _)
Conductivite(ks, sol, sol_max, c) ==
    IF c = 0 THEN ks
    ELSE Conductivite((ks * sol) \div sol_max, sol, sol_max, c - 1)

\* one hour of the drainage of the two layers; e.sol is <<layer 1, layer 2,
\* water table>>
Heure(e, q) ==
    LET drainage == [i \in 1..2 |->
                        (q.sol_max[i] * Conductivite(q.ks[i], e.sol[i],
                                            q.sol_max[i], q.c[i]))
                            \div (24 * q.z[i])]
        \* layer 2 towards the intermediate flow and the water table
        Couche2(d) ==
            LET hypo == Fraction(d, q.portion)
                sol2 == e.sol[2] - hypo
                d1 == Min(sol2 - q.sol_min[2], d - hypo)
                ecart_sol_max == q.sol_max[3] - e.sol[3]
                surplus == Max(d1 - ecart_sol_max, 0)
                d2 == Min(ecart_sol_max, d1)
            IN  [sol2 |-> sol2 - surplus - d2, nappe |-> e.sol[3] + d2,
                 apport1 |-> e.apport1 + hypo + surplus,
                 recharge |-> e.recharge + d2]
        \* layer 1 towards layer 2
        Couche1(u, d) ==
            LET d0 == Min(q.sol_max[2] - u.sol2, d)
            IN  [sol |-> <<e.sol[1] - d0, u.sol2 + d0, u.nappe>>,
                 apport1 |-> u.apport1, recharge |-> u.recharge]
    IN  Seul({Couche1(u, d0) :
              u \in {Seul({Couche2(d) :
                        d \in {Min(e.sol[2] - q.sol_min[2], drainage[2])}})},
              d0 \in {IF e.sol[1] < q.sol_min[1] THEN 0
                      ELSE Min(e.sol[1] - q.sol_min[1], drainage[1])}})

\* the loop over the pas_1h hours of the step
RECURSIVE Heures(_, _, _)
Heures(pas_1h, e, q) ==
    IF pas_1h = 0 THEN e
    ELSE Seul({Heures(pas_1h - 1, x, q) : x \in {Heure(e, q)}})

\* variant of ecoulement_3couches whose infiltration is not limited by the
\* room left in layer 1
ecoulement_3couches_sans_plafond(nb_pas, param_, etat_, offre, demande, modules, ruissellement_surface, apport_vertical, etr) ==
    LET z == <<param_[39], param_[40]>>
        excedent == offre - demande > 0
        Corps(q, inf) ==
            LET apport0 ==
                    IF excedent /\ modules.infiltration = "scs_cn"
                    THEN [i \in DOMAIN apport_vertical |-> inf.ruissellement]
                    ELSE [apport_vertical EXCEPT ![3] = inf.ruissellement]
                pompage ==
                    IF excedent THEN 0
                    ELSE Min(etat_.sol[1] - Fraction(z[1], param_[41]),
                             (etat_.sol[1] * (demande - offre))
                                 \div q.sol_max[1])
                Fin(e) ==
                    LET infiltration == inf.infiltration
                        base == IF modules.qbase = "hsami"
                                THEN (e.sol[3] * param_[17])
                                         \div (100 * nb_pas)
                                ELSE Fraction(e.sol[3], param_[26])
                    IN  [erreur |-> Aucune,
                         apport |-> [apport0 EXCEPT
                                       ![1] = base,
                                       ![2] = e.apport1,
                                       ![3] = @ + inf.infiltration
                                                - infiltration],
                         etat |-> [etat_ EXCEPT
                                     !.sol = <<e.sol[1] + infiltration,
                                               e.sol[2]>>,
                                     !.nappe = e.sol[3] - base],
                         etr |-> [etr EXCEPT
                                    ![3] = IF excedent THEN demande
                                           ELSE offre,
                                    ![4] = pompage]]
            IN  Seul({Fin(e) : e \in
                   {Heures(24 \div nb_pas,
                           [sol |-> <<etat_.sol[1] - pompage, etat_.sol[2],
                                      etat_.nappe>>,
                            apport1 |-> apport0[2], recharge |-> 0], q)}})
    IN  Seul({Corps(q, inf) :
          q \in {[ks |-> <<100 * Puissance10(param_[24]),
                          100 * Puissance10(param_[38])>>,
                  c |-> <<2 * param_[36] + 3, 2 * param_[37] + 3>>,
                  sol_max |-> <<Fraction(z[1], param_[44]),
                               Fraction(z[2], param_[45]), param_[13]>>,
                  sol_min |-> <<Fraction(z[1], param_[42]),
                               Fraction(z[2], param_[43])>>,
                  z |-> z, portion |-> param_[14]]},
          inf \in {CASE excedent /\ modules.infiltration = "green_ampt" ->
                          green_ampt(offre - demande, param_[34], nb_pas)
                     [] excedent /\ modules.infiltration = "hsami" ->
                          [infiltration |-> offre - demande,
                           ruissellement |-> ruissellement_surface]
                     [] excedent /\ modules.infiltration = "scs_cn" ->
                          scs_cn(offre - demande, param_[23])
                     [] ~excedent ->
                          [infiltration |-> 0,
                           ruissellement |->
                               IF modules.infiltration = "hsami"
                               THEN ruissellement_surface
                               ELSE apport_vertical[3]]}})

\* two layers of soil above the water table (modules.sol = 3couches), for
\* the accepted selections of infiltration and qbase.  The exponents b of
\* the conductivity are whole numbers, ks is 10 ** param cm per day.
ecoulement_3couches(nb_pas, param_, etat_, offre, demande, modules, ruissellement_surface, apport_vertical, etr) ==
    LET z == <<param_[39], param_[40]>>
        excedent == offre - demande > 0
        Corps(q, inf) ==
            LET apport0 ==
                    IF excedent /\ modules.infiltration = "scs_cn"
                    THEN [i \in DOMAIN apport_vertical |-> inf.ruissellement]
                    ELSE [apport_vertical EXCEPT ![3] = inf.ruissellement]
                pompage ==
                    IF excedent THEN 0
                    ELSE Min(etat_.sol[1] - Fraction(z[1], param_[41]),
                             (etat_.sol[1] * (demande - offre))
                                 \div q.sol_max[1])
                Fin(e) ==
                    LET infiltration ==
                            Min(q.sol_max[1] - e.sol[1], inf.infiltration)
                        base == IF modules.qbase = "hsami"
                                THEN (e.sol[3] * param_[17])
                                         \div (100 * nb_pas)
                                ELSE Fraction(e.sol[3], param_[26])
                    IN  [erreur |-> Aucune,
                         apport |-> [apport0 EXCEPT
                                       ![1] = base,
                                       ![2] = e.apport1,
                                       ![3] = @ + inf.infiltration
                                                - infiltration],
                         etat |-> [etat_ EXCEPT
                                     !.sol = <<e.sol[1] + infiltration,
                                               e.sol[2]>>,
                                     !.nappe = e.sol[3] - base],
                         etr |-> [etr EXCEPT
                                    ![3] = IF excedent THEN demande
                                           ELSE offre,
                                    ![4] = pompage]]
            IN  Seul({Fin(e) : e \in
                   {Heures(24 \div nb_pas,
                           [sol |-> <<etat_.sol[1] - pompage, etat_.sol[2],
                                      etat_.nappe>>,
                            apport1 |-> apport0[2], recharge |-> 0], q)}})
    IN  Seul({Corps(q, inf) :
          q \in {[ks |-> <<100 * Puissance10(param_[24]),
                          100 * Puissance10(param_[38])>>,
                  c |-> <<2 * param_[36] + 3, 2 * param_[37] + 3>>,
                  sol_max |-> <<Fraction(z[1], param_[44]),
                               Fraction(z[2], param_[45]), param_[13]>>,
                  sol_min |-> <<Fraction(z[1], param_[42]),
                               Fraction(z[2], param_[43])>>,
                  z |-> z, portion |-> param_[14]]},
          inf \in {CASE excedent /\ modules.infiltration = "green_ampt" ->
                          green_ampt(offre - demande, param_[34], nb_pas)
                     [] excedent /\ modules.infiltration = "hsami" ->
                          [infiltration |-> offre - demande,
                           ruissellement |-> ruissellement_surface]
                     [] excedent /\ modules.infiltration = "scs_cn" ->
                          scs_cn(offre - demande, param_[23])
                     [] ~excedent ->
                          [infiltration |-> 0,
                           ruissellement |->
                               IF modules.infiltration = "hsami"
                               THEN ruissellement_surface
                               ELSE apport_vertical[3]]}})

-----------------------------------------------------------------------------
(* hsami_ecoulement_horizontal.py *)

\* x[1:] followed by 0
DecalageGauche(x) == [k \in DOMAIN x |-> IF k = Len(x) THEN 0 ELSE x[k + 1]]

\* 0 followed by x[:-1]
DecalageDroite(x) == [k \in DOMAIN x |-> IF k = 1 THEN 0 ELSE x[k - 1]]

\* poids_ is the sum of the weights of the hydrographs; the lateral inflows
\* are returned multiplied by poids_
hsami_ecoulement_horizontal(nb_pas, vidange_reserve_inter, reserve_inter, eau_hydrogrammes, hydrogrammes, apport_vertical, modules, poids_) ==
    LET den == 100 * nb_pas
        num == den - (100 - vidange_reserve_inter)
        col0 == [k \in DOMAIN eau_hydrogrammes[1] |->
                    eau_hydrogrammes[1][k]
                        + hydrogrammes[1][k] * apport_vertical[3]]
        col2 == IF modules.mhumide = "1"
                THEN [k \in DOMAIN eau_hydrogrammes[3] |->
                        eau_hydrogrammes[3][k]
                            + hydrogrammes[1][k] * apport_vertical[6]]
                ELSE eau_hydrogrammes[3]
        apport == <<apport_vertical[1] * poids_, reserve_inter, col0[1],
                    apport_vertical[4] * poids_, apport_vertical[5] * poids_,
                    col2[1]>>
        col1 == [eau_hydrogrammes[2] EXCEPT ![1] = apport_vertical[2]]
        eau_inter == SommeTout([k \in DOMAIN col1 |->
                                   col1[k] * hydrogrammes[2][k]])
    IN  [apport |-> apport,
         reserve_inter |->
             (reserve_inter * num + eau_inter * (den - num)) \div den,
         eau_hydrogrammes |->
             <<DecalageGauche(col0), DecalageDroite(col1),
               DecalageGauche(col2)>>]

-----------------------------------------------------------------------------
(* hsami2_noyau.py *)

\* a row after the check t_min < t_max: the two temperatures are swapped
\* in place when they are inverted
Ordonnee(ligne) ==
    IF ligne[1] > ligne[2]
    THEN <<ligne[2], ligne[1]>> \o SubSeq(ligne, 3, Len(ligne))
    ELSE ligne

\* ratio_bassin*neige_au_sol + ratio_fixe*(gel + nappe + sol + mhumide)
\* + eeg/superficie[0], times superficie[0]
EtatsBilan(etat_) ==
    etat_.ratio_bassin * etat_.neige_au_sol
    + etat_.ratio_fixe
        * (etat_.gel + etat_.nappe + nansum(etat_.sol) + etat_.mhumide)
    + SommeEeg(etat_.eeg)

\* water of the routing buffers counted at the start of the step, times
\* poids_: columns 0 and 2 and the first rows of column 1
EauxHuIni(eau_hydrogrammes, poids_) ==
    SommeTout(eau_hydrogrammes[1]) + SommeTout(eau_hydrogrammes[3])
    + poids_ * Somme(eau_hydrogrammes[2], 0, TrancheInter)

\* water of the routing buffers counted at the end of the step, times poids_
EauxHu(eau_hydrogrammes, poids_) ==
    SommeTout(eau_hydrogrammes[1]) + poids_ * SommeTout(eau_hydrogrammes[2])
    + SommeTout(eau_hydrogrammes[3])

\* variant of BrancheGlace without the final else: an unknown selection is
\* handled as the selection 0
BrancheGlace_sans_rejet(glace_reservoir, physio) ==
    IF glace_reservoir \in {"stefan", "mylake"}
    THEN IF "niveau" \in DOMAIN physio THEN "niveau" ELSE "fixe"
    ELSE "fixe"

\* which call of hsami_glace the selection of glace_reservoir leads to
BrancheGlace(glace_reservoir, physio) ==
    IF glace_reservoir \in {"stefan", "mylake"}
    THEN IF "niveau" \in DOMAIN physio THEN "niveau" ELSE "fixe"
    ELSE IF glace_reservoir = "0" THEN "fixe"
    ELSE "invalide"

etp_glace_interception(p, param_, modules, physio, superficie, meteo, nb_pas, etat_, tas_) ==
    LET branche == BrancheGlace(modules.glace_reservoir, physio)
        echec(e, et, ts) ==
            [erreur |-> e, etat |-> et, tas |-> ts, eau_surface |-> 0,
             demande_eau |-> 0, etps |-> <<>>, etr |-> <<>>,
             apport_vertical |-> <<>>, glace_vers_reservoir |-> 0,
             bassin_vers_reservoir |-> 0]
        Interception(e0, e1, g) ==
            Seul({IF i.erreur # Aucune THEN echec(i.erreur, i.etat, i.tas)
                  ELSE [erreur |-> Aucune, etat |-> i.etat, tas |-> i.tas,
                        eau_surface |-> i.eau_surface,
                        demande_eau |-> i.demande_eau,
                        etps |-> <<e0.etp, e1.etp>>, etr |-> i.etr,
                        apport_vertical |-> i.apport_vertical,
                        glace_vers_reservoir |-> g.glace_vers_reservoir,
                        bassin_vers_reservoir |-> g.bassin_vers_reservoir] :
                  i \in {hsami_interception(nb_pas, param_, meteo,
                             <<e0.etp, e1.etp>>, g.etats, tas_, modules,
                             physio)}})
        Glace(e0, e1) ==
            Seul({IF g.erreur # Aucune THEN echec(g.erreur, g.etats, tas_)
                  ELSE Interception(e0, e1, g) :
                  g \in {hsami_glace(modules, superficie, etat_, tas_,
                             IF branche = "niveau"
                             THEN <<meteo, physio, param_>> ELSE <<>>)}})
    IN  Seul({IF e0.erreur # Aucune THEN echec(e0.erreur, etat_, tas_)
              ELSE IF e1.erreur # Aucune THEN echec(e1.erreur, etat_, tas_)
              ELSE IF branche = "invalide"
              THEN echec(Exception("ValueError", "hsami2_noyau.py:509"),
                         etat_, tas_)
              ELSE Glace(e0, e1) :
              e0 \in {hsami_etp(p.pas, nb_pas, meteo.bassin[1],
                                meteo.bassin[2], modules.etp_bassin)},
              e1 \in {hsami_etp(p.pas, nb_pas, meteo.reservoir[1],
                                meteo.reservoir[2], modules.etp_reservoir)}})

\* the flows q are multiplied by 8.64 * poids_, etr_tot and etp_tot by
\* superficie[0]
ruissellement_ecoulement(p, param_, modules, superficie, nb_pas, etat_, etps, eau_surface, demande_eau, etr, apport_vertical, glace_vers_reservoir, bassin_vers_reservoir) ==
    LET poids_ == PoidsTotal(p)
        hydrogramme == hsami_hydrogramme(param_[19], p.memoire)
        echec(e) == [erreur |-> e, etat |-> etat_, q |-> <<>>, etp_tot |-> 0,
                     etr_tot |-> 0, etr |-> <<>>, horizontal |-> 0]
        Sorties(v, h, e2, etr1, ah) ==
            [erreur |-> Aucune, etat |-> e2,
             q |-> <<ah[1] * e2.ratio_fixe, ah[2] * e2.ratio_fixe,
                     ah[3] * e2.ratio_fixe,
                     ah[4] * e2.ratio_reservoir
                         + bassin_vers_reservoir * poids_,
                     ah[5] + glace_vers_reservoir * poids_,
                     ah[6] * e2.ratio_fixe>>,
             etp_tot |-> etps[1] * e2.ratio_bassin
                             + etps[2] * e2.ratio_reservoir,
             etr_tot |-> Somme(etr1, 0, 4) * e2.ratio_bassin
                             + etr1[5] * e2.ratio_reservoir,
             etr |-> etr1,
             \* delta["horizontal"]: entrees - sorties + etat[0] - etat[1]
             horizontal |->
                 poids_ * SommeTout(v.apport) - SommeTout(ah)
                 + (EauxHuIni(v.etat.eau_hydrogrammes, poids_)
                        + v.etat.reserve)
                 - EauxHu(e2.eau_hydrogrammes, poids_)]
        Horizontal(v) ==
            Seul({Sorties(v, h,
                      [v.etat EXCEPT !.reserve = h.reserve_inter,
                                     !.eau_hydrogrammes = h.eau_hydrogrammes],
                      [v.etr EXCEPT
                         ![3] = (@ * v.etat.ratio_fixe)
                                    \div v.etat.ratio_bassin,
                         ![4] = (@ * v.etat.ratio_fixe)
                                    \div v.etat.ratio_bassin],
                      h.apport) :
                  h \in {hsami_ecoulement_horizontal(nb_pas, param_[18],
                             v.etat.reserve, v.etat.eau_hydrogrammes,
                             <<hydrogramme, hydrogramme>>, v.apport, modules,
                             poids_)}})
        Vertical(r) ==
            Seul({IF v.erreur # Aucune THEN echec(v.erreur)
                  ELSE CASE modules.mhumide = "0" -> Horizontal(v) :
                  v \in {hsami_ecoulement_vertical(nb_pas, param_, etat_,
                             (r.infiltration * etat_.ratio_bassin)
                                 \div etat_.ratio_fixe,
                             (demande_eau * etat_.ratio_bassin)
                                 \div etat_.ratio_fixe,
                             modules,
                             (r.ruissellement_surface * etat_.ratio_bassin)
                                 \div etat_.ratio_fixe,
                             apport_vertical, etr)}})
    IN  Seul({IF r.erreur # Aucune THEN echec(r.erreur) ELSE Vertical(r) :
              r \in {hsami_ruissellement_surface(nb_pas, param_, etat_,
                                                 eau_surface, modules)}})

\* variant of Debits that reports the whole base flow as Qbase, also when a
\* part of it comes from the wetland
Debits_base_entiere(q, ratio_qbase, mhumide) ==
    [Qtotal |-> SommeTout(q),
     Qbase |-> q[1],
     Qinter |-> q[2], Qsurf |-> q[3], Qreservoir |-> q[4], Qglace |-> q[5],
     Qmh |-> IF mhumide = "1" THEN (q[1] * ratio_qbase) \div 100 + q[6]
             ELSE 0]

\* the discharges of the output structure s; ratio_qbase in percent
Debits(q, ratio_qbase, mhumide) ==
    [Qtotal |-> SommeTout(q),
     Qbase |-> (q[1] * (100 - ratio_qbase)) \div 100,
     Qinter |-> q[2], Qsurf |-> q[3], Qreservoir |-> q[4], Qglace |-> q[5],
     Qmh |-> IF mhumide = "1" THEN (q[1] * ratio_qbase) \div 100 + q[6]
             ELSE 0]

\* [0.0] * nb_pas.tolist() fails on a Python int; nb_pas_numpy tells that
\* nb_pas_par_jour is a numpy integer.  delta.total and delta.horizontal
\* are multiplied by superficie[0] * poids_ and by poids_.
bilan_sorties(modules, meteo, superficie, nb_pas, nb_pas_numpy, etat_, q, etp_tot, etr_tot, horizontal, etats_ini, reserv_ini, eaux_hu_ini, poids_) ==
    LET Qtotal == SommeTout(q)
        entrees_bilan ==
            etat_.ratio_bassin * (meteo.bassin[3] + meteo.bassin[4])
            + etat_.ratio_reservoir
                * (meteo.reservoir[3] + meteo.reservoir[4])
        etats_bilan == EtatsBilan(etat_)
        eaux_hu == etat_.ratio_fixe * EauxHu(etat_.eau_hydrogrammes, poids_)
        debit == Qtotal
    IN  IF modules.mhumide # "1" /\ nb_pas # 1 /\ ~nb_pas_numpy
        THEN [erreur |-> Exception("AttributeError", "hsami2_noyau.py:989"),
              s |-> <<>>, delta |-> <<>>]
        ELSE CASE modules.mhumide = "0" ->
            [erreur |-> Aucune,
             s |-> Debits(q, etat_.ratio_qbase, modules.mhumide)
                       @@ [ETRtotal |-> etr_tot],
             delta |-> [total |->
                            poids_ * entrees_bilan + reserv_ini
                            + poids_ * etats_ini + eaux_hu_ini
                            - poids_ * etats_bilan - eaux_hu - debit
                            - poids_ * etr_tot,
                        horizontal |-> horizontal,
                        \* 0.0, or the list [0.0] * nb_pas
                        mhumide |->
                            IF nb_pas = 1
                            THEN [forme |-> "scalaire", valeur |-> <<0>>]
                            ELSE [forme |-> "liste",
                                  valeur |-> [k \in 1..nb_pas |-> 0]]]]

\* one time step: the rows of p.meteo and the state are updated in place,
\* also by a step that fails
hsami2_noyau(p, etat_, tas_) ==
    LET nb_pas == p.nb_pas_par_jour
        physio == IF "latitude" \in DOMAIN p.physio
                  THEN [p.physio EXCEPT !.latitude = (@ * 31416) \div 1800]
                  ELSE p.physio
        meteo == [bassin |-> Ordonnee(p.meteo.bassin),
                  reservoir |-> Ordonnee(p.meteo.reservoir)]
        poids_ == PoidsTotal(p)
        echec(e, et, ts) == [erreur |-> e, meteo |-> meteo, etat |-> et,
                             tas |-> ts, s |-> <<>>, delta |-> <<>>]
        Bilan(a, b) ==
            Seul({IF c.erreur # Aucune THEN echec(c.erreur, b.etat, a.tas)
                  ELSE [erreur |-> Aucune, meteo |-> meteo, etat |-> b.etat,
                        tas |-> a.tas, s |-> c.s, delta |-> c.delta] :
                  c \in {bilan_sorties(p.modules, meteo, p.superficie,
                             nb_pas, p.nb_pas_numpy, b.etat, b.q, b.etp_tot,
                             b.etr_tot, b.horizontal, EtatsBilan(etat_),
                             etat_.ratio_fixe * etat_.reserve,
                             etat_.ratio_fixe
                                 * EauxHuIni(etat_.eau_hydrogrammes, poids_),
                             poids_)}})
        Ecoulement(a) ==
            Seul({IF b.erreur # Aucune THEN echec(b.erreur, b.etat, a.tas)
                  ELSE Bilan(a, b) :
                  b \in {ruissellement_ecoulement(p, p.param, p.modules,
                             p.superficie, nb_pas, a.etat, a.etps,
                             a.eau_surface, a.demande_eau, a.etr,
                             a.apport_vertical, a.glace_vers_reservoir,
                             a.bassin_vers_reservoir)}})
    IN  IF "sol" \notin DOMAIN etat_
        THEN echec(Exception("KeyError", "hsami2_noyau.py:333"), etat_, tas_)
        ELSE Seul({IF a.erreur # Aucune
                   THEN echec(a.erreur, a.etat, a.tas)
                   ELSE Ecoulement(a) :
                   a \in {etp_glace_interception(p, p.param, p.modules,
                              physio, p.superficie, meteo, nb_pas, etat_,
                              tas_)}})

-----------------------------------------------------------------------------
(* hsami2.py *)

modules_par_defaut(modules) ==
    [k \in (DOMAIN valeurs_default) \cup (DOMAIN modules) |->
        IF k \in DOMAIN modules THEN modules[k] ELSE valeurs_default[k]]

\* variant of MhumideInvalide that rejects only a negative maximal area
MhumideInvalide_negatif(modules, physio) ==
    modules.mhumide = "1" /\ physio.samax < 0

\* the wetland is enabled with a zero maximal area
MhumideInvalide(modules, physio) ==
    modules.mhumide = "1" /\ physio.samax = 0

\* the initial state dict and the band record of the banded snow models;
\* superficie and modules are the values completed by hsami2
EtatDepart(p, modules, superficie) ==
    LET nul == [k \in 1..p.memoire |-> 0]
        n == Len(p.physio.occupation)
        neige == IF modules.een \in {"mdj", "alt"}
                 THEN (modules.een :> 1) ELSE [k \in {} |-> 0]
        bande == [couvert_neige |-> [i \in 1..n |-> 0],
                  densite_neige |-> [i \in 1..n |-> 0],
                  albedo_neige |-> [i \in 1..n |-> AlbedoInitial],
                  neige_au_sol |-> [i \in 1..n |-> 0],
                  fonte |-> [i \in 1..n |-> 0],
                  gel |-> [i \in 1..n |-> 0],
                  sol |-> [i \in 1..n |-> 0],
                  energie_neige |-> [i \in 1..n |-> 0],
                  energie_glace |-> 0]
        sol == IF modules.sol = "hsami" THEN [sol |-> <<p.param[11], NaN>>]
               ELSE [k \in {} |-> 0]
        mh_surf == IF modules.mhumide = "1" THEN 0 ELSE 1
    IN  IF MhumideInvalide(modules, p.physio)
        THEN [erreur |-> Exception("ValueError", "hsami2.py:144"),
              etat |-> <<>>, tas |-> <<>>]
        ELSE IF mh_surf = 0
        THEN [erreur |-> Exception("ZeroDivisionError", "hsami2.py:162"),
              etat |-> <<>>, tas |-> <<>>]
        ELSE CASE modules.sol # "3couches" /\ modules.mhumide = "0" ->
            [erreur |-> Aucune,
             tas |-> IF modules.een \in {"mdj", "alt"} THEN <<bande>>
                     ELSE <<>>,
             etat |->
                [eau_hydrogrammes |-> <<nul, nul, nul>>,
                 neige_au_sol |-> 0, fonte |-> 0, nas_tot |-> 0,
                 fonte_tot |-> 0, derniere_neige |-> 0, gel |-> 0,
                 nappe |-> p.param[13], reserve |-> 0,
                 mh_vol |-> 0, ratio_MH |-> 0, mh_surf |-> mh_surf,
                 mhumide |-> 0, ratio_qbase |-> 0,
                 cumdegGel |-> 0, obj_gel |-> QuartDegre * ObjGelInitial,
                 dernier_gel |-> 0, reservoir_epaisseur_glace |-> 0,
                 reservoir_energie_glace |-> 0,
                 reservoir_superficie |-> superficie[2],
                 reservoir_superficie_glace |-> 0,
                 reservoir_superficie_ref |-> superficie[2],
                 eeg |-> [k \in {} |-> 0],
                 ratio_bassin |-> superficie[1], ratio_reservoir |-> 0,
                 ratio_fixe |-> superficie[1]] @@ neige @@ sol]

\* keys of the state series kept by the model
ClesEtats(etat_) ==
    {"neige_au_sol", "sol", "nappe", "reserve", "mdj", "alt"}
        \cap DOMAIN etat_

ClesS ==
    {"Qtotal", "Qbase", "Qinter", "Qsurf", "Qreservoir", "Qglace", "Qmh",
     "ETRtotal"}

ClesDeltas == {"total", "horizontal", "mhumide"}

PasSuivant(pas_, nb_pas) == IF pas_ = nb_pas THEN 1 ELSE pas_ + 1

\* the project p handed to the driver for the row i
ProjetPas(i, pas_) ==
    [superficie |-> projet.superficie,
     memoire |-> projet.memoire,
     param |-> projet.param,
     nb_pas_par_jour |-> projet.nb_pas_par_jour,
     nb_pas_numpy |-> projet.nb_pas_numpy,
     meteo |-> [bassin |-> Ligne(projet.meteo.bassin, i),
                reservoir |-> Ligne(projet.meteo.reservoir, i)],
     modules |-> projet.modules,
     physio |-> projet.physio,
     pas |-> pas_]

\* the rows of the project after the driver has run on the row i
MeteoApres(i, meteo) ==
    [bassin |-> EcrireLigne(projet.meteo.bassin, i, meteo.bassin),
     reservoir |-> EcrireLigne(projet.meteo.reservoir, i, meteo.reservoir)]

\* extraction of the project, defaults, validation, initial state
hsami2_debut ==
    /\ pc = "debut"
    /\ \E superficie \in {IF Len(projet.superficie) = 1
                             THEN Append(projet.superficie, 0)
                             ELSE projet.superficie},
          modules \in {modules_par_defaut(projet.modules)} :
         \E d \in {EtatDepart(projet, modules, superficie)} :
           /\ projet' = [projet EXCEPT !.superficie = superficie,
                                       !.modules = modules]
           /\ IF d.erreur # Aucune
              THEN /\ pc' = "erreur"
                   /\ erreur' = d.erreur
                   /\ UNCHANGED <<etat, tas, s, etats, deltas>>
              ELSE /\ pc' = "chauffe"
                   /\ etat' = d.etat
                   /\ tas' = d.tas
                   /\ s' = [k \in ClesS |-> <<>>]
                   /\ etats' = [k \in ClesEtats(d.etat) |-> <<>>]
                   /\ deltas' = [k \in ClesDeltas |-> <<>>]
                   /\ UNCHANGED erreur
    /\ i_pas' = 0
    /\ pas' = 1
    /\ UNCHANGED <<projet0, etat_avant, appel, termines>>

\* one iteration of the warm-up loop of hsami_etat_initial
hsami_etat_initial ==
    /\ pc = "chauffe"
    /\ i_pas < NbChauffe
    /\ IF i_pas >= projet.meteo.bassin.n
       THEN /\ pc' = "erreur"
            /\ erreur' = Exception("IndexError", "hsami2.py:310")
            /\ UNCHANGED <<projet, i_pas, pas, etat, tas, etat_avant, appel,
                           termines>>
       ELSE \E r \in {hsami2_noyau(ProjetPas(i_pas, pas), etat, tas)} :
                /\ projet' = [projet EXCEPT !.meteo =
                                  MeteoApres(i_pas, r.meteo)]
                /\ etat_avant' = [etat |-> etat, tas |-> tas]
                /\ appel' = [numero |-> appel.numero + 1, ligne |-> i_pas,
                             pas |-> pas, boucle |-> "chauffe"]
                /\ etat' = r.etat
                /\ tas' = r.tas
                /\ IF r.erreur # Aucune
                   THEN /\ pc' = "erreur"
                        /\ erreur' = r.erreur
                        /\ UNCHANGED <<i_pas, pas, termines>>
                   ELSE /\ termines' = termines + 1
                        /\ i_pas' = i_pas + 1
                        /\ pas' = PasSuivant(pas, projet.nb_pas_par_jour)
                        /\ UNCHANGED <<pc, erreur>>
    /\ UNCHANGED <<projet0, s, etats, deltas>>

\* variant of hsami_etat_initial_retour that hands the state of before the
\* warm-up to hsami_simulation
hsami_etat_initial_retour_etat_de_depart ==
    /\ pc = "chauffe"
    /\ i_pas = NbChauffe
    /\ pc' = "simulation"
    /\ i_pas' = 0
    /\ pas' = 1
    /\ \E d \in {EtatDepart(projet, projet.modules, projet.superficie)} :
           /\ etat' = d.etat
           /\ tas' = d.tas
    /\ UNCHANGED <<projet, projet0, erreur, etat_avant, appel, termines, s,
                   etats, deltas>>

\* end of the warm-up: hsami_simulation starts from the state reached
hsami_etat_initial_retour ==
    /\ pc = "chauffe"
    /\ i_pas = NbChauffe
    /\ pc' = "simulation"
    /\ i_pas' = 0
    /\ pas' = 1
    /\ UNCHANGED <<projet, projet0, erreur, etat, tas, etat_avant, appel,
                   termines, s, etats, deltas>>

\* one iteration of the main loop of hsami_simulation
hsami_simulation ==
    /\ pc = "simulation"
    /\ i_pas < projet.meteo.bassin.n
    /\ \E r \in {hsami2_noyau(ProjetPas(i_pas, pas), etat, tas)} :
           /\ projet' = [projet EXCEPT !.meteo = MeteoApres(i_pas, r.meteo)]
           /\ etat_avant' = [etat |-> etat, tas |-> tas]
           /\ appel' = [numero |-> appel.numero + 1, ligne |-> i_pas,
                        pas |-> pas, boucle |-> "simulation"]
           /\ etat' = r.etat
           /\ tas' = r.tas
           /\ IF r.erreur # Aucune
              THEN /\ pc' = "erreur"
                   /\ erreur' = r.erreur
                   /\ UNCHANGED <<i_pas, pas, termines, s, etats, deltas>>
              ELSE /\ termines' = termines + 1
                   /\ s' = [k \in DOMAIN s |-> Append(s[k], r.s[k])]
                   /\ etats' = [k \in DOMAIN etats |->
                                   Append(etats[k], r.etat[k])]
                   /\ deltas' = [k \in DOMAIN deltas |->
                                    Append(deltas[k], r.delta[k])]
                   /\ i_pas' = i_pas + 1
                   /\ pas' = PasSuivant(pas, projet.nb_pas_par_jour)
                   /\ UNCHANGED <<pc, erreur>>
    /\ UNCHANGED projet0

\* hsami2 returns s, etats, deltas
hsami_simulation_retour ==
    /\ pc = "simulation"
    /\ i_pas = projet.meteo.bassin.n
    /\ pc' = "fin"
    /\ UNCHANGED <<projet, projet0, erreur, i_pas, pas, etat, tas,
                   etat_avant, appel, termines, s, etats, deltas>>

Init ==
    /\ projet \in Projets
    /\ projet0 = projet
    /\ pc = "debut"
    /\ erreur = Aucune
    /\ i_pas = 0
    /\ pas = 1
    /\ etat = <<>>
    /\ tas = <<>>
    /\ etat_avant = [etat |-> <<>>, tas |-> <<>>]
    /\ appel = [numero |-> 0, ligne |-> 0, pas |-> 1, boucle |-> ""]
    /\ termines = 0
    /\ s = <<>>
    /\ etats = <<>>
    /\ deltas = <<>>

Next ==
    \/ hsami2_debut
    \/ hsami_etat_initial
    \/ hsami_etat_initial_retour
    \/ hsami_simulation
    \/ hsami_simulation_retour

Spec == Init /\ [][Next]_vars

-----------------------------------------------------------------------------
(* Properties *)

\* the module selections of the caller's project, completed by the defaults
modules0 == modules_par_defaut(projet0.modules)

\* nb_pas_total: the number of rows of the watershed meteorology
nb_pas_total == projet0.meteo.bassin.n

\* a process key holds a selection that no branch of its module handles
SelectionInvalide == \E k \in ClesProcessus : modules0[k] \notin Valides[k]

\* glace_reservoir is neither 0 nor a recognised string
GlaceInconnue == modules0.glace_reservoir \notin {"0", "stefan", "mylake"}

\* MyLake is selected with a snow module without bands
MylakeSansBandes ==
    modules0.glace_reservoir = "mylake" /\ modules0.een \notin {"mdj", "alt"}

\* a project whose selections are all accepted
ProjetValide ==
    /\ ~SelectionInvalide
    /\ ~GlaceInconnue
    /\ ~MylakeSansBandes
    /\ ~MhumideInvalide(modules0, projet0.physio)

\* the value that an entry x of the state series k denotes: the nested dict
\* of a banded snow model is stored by reference
Contenu(k, x, tas_) == IF k \in {"mdj", "alt"} THEN tas_[x] ELSE x

\* C1: for every valid project and every step t of the main loop the
\* whole-basin residual deltas.total[t] is zero, for every length memoire of
\* the routing memory.
C1_ResiduNul ==
    (ProjetValide /\ "total" \in DOMAIN deltas) =>
        \A t \in 1..Len(deltas.total) : deltas.total[t] = 0

\* C2: for every project with N >= 1 rows, also N < 365, hsami2 does not
\* run out of rows and returns series that all have exactly N entries.
C2_SeriesCompletes ==
    /\ pc = "erreur" => erreur.lieu # "hsami2.py:310"
    /\ pc = "fin" =>
        /\ \A k \in DOMAIN s : Len(s[k]) = nb_pas_total
        /\ \A k \in DOMAIN etats : Len(etats[k]) = nb_pas_total
        /\ \A k \in DOMAIN deltas : Len(deltas[k]) = nb_pas_total

\* C3: the warm-up calls the driver once on each of the rows 0..364 in
\* order, pas starting at 1 and cycling 1..nb_pas_par_jour; no warm-up step
\* adds an entry to s, etats or deltas; the first step of the main loop
\* starts from the state left by the last warm-up step.
C3_Chauffe ==
    [][/\ pc' = "chauffe" =>
            /\ \A k \in DOMAIN s' : s'[k] = <<>>
            /\ \A k \in DOMAIN etats' : etats'[k] = <<>>
            /\ \A k \in DOMAIN deltas' : deltas'[k] = <<>>
            /\ appel'.numero = i_pas'
            /\ termines' = i_pas'
            /\ pas' = (i_pas' % projet'.nb_pas_par_jour) + 1
       /\ (pc = "chauffe" /\ pc' = "chauffe") =>
            /\ i_pas' = i_pas + 1
            /\ appel' = [numero |-> i_pas + 1, ligne |-> i_pas, pas |-> pas,
                         boucle |-> "chauffe"]
            /\ etat_avant' = [etat |-> etat, tas |-> tas]
       /\ (pc = "chauffe" /\ pc' = "simulation") =>
            /\ termines = NbChauffe
            /\ appel.ligne = NbChauffe - 1
            /\ etat' = etat
            /\ tas' = tas
            /\ UNCHANGED <<s, etats, deltas, appel, termines>>
       /\ (pc = "simulation" /\ appel.boucle = "chauffe" /\ appel' # appel) =>
            /\ appel' = [numero |-> NbChauffe + 1, ligne |-> 0, pas |-> 1,
                         boucle |-> "simulation"]
            /\ etat_avant' = [etat |-> etat, tas |-> tas]]_vars

\* the first step of the main loop has run after a warm-up with several
\* steps per day
C3_Temoin ==
    /\ pc = "simulation"
    /\ appel = [numero |-> NbChauffe + 1, ligne |-> 0, pas |-> 1,
                boucle |-> "simulation"]
    /\ projet.nb_pas_par_jour > 1
    /\ Len(s.Qtotal) = 1

C5_MhumideSansSuperficie ==
    (modules0.mhumide = "1" /\ projet0.physio.samax = 0 /\ pc # "debut") =>
        /\ pc = "erreur"
        /\ erreur = Exception("ValueError", "hsami2.py:144")
        /\ appel.numero = 0
        /\ termines = 0

\* hsami2 has stopped on a wetland without area
C5_Temoin ==
    /\ modules0.mhumide = "1"
    /\ projet0.physio.samax = 0
    /\ pc = "erreur"
    /\ appel.numero = 0

\* C6: with glace_reservoir = 'mylake' and a snow module outside {mdj, alt}
\* no driver step completes, for every modules.reservoir and with or without
\* physio.niveau.
C6_MylakeRejete == MylakeSansBandes => termines = 0

\* C7: when one of etp_bassin, etp_reservoir, een, infiltration, sol, qbase
\* holds a value outside its allowed set, no driver step completes.
C7_SelectionRejetee == SelectionInvalide => termines = 0

\* C8: when a driver step fails on an invalid module value, the state that
\* was passed to the driver is as it was before the call.
C8_EtatIntact ==
    (/\ pc = "erreur"
     /\ appel.numero > 0
     /\ SelectionInvalide \/ GlaceInconnue \/ MylakeSansBandes) =>
        /\ etat = etat_avant.etat
        /\ tas = etat_avant.tas

\* C9: superficie, modules, physio and every meteorological row of the
\* caller's project keep the values they had when hsami2 was called.
C9_ProjetIntact ==
    /\ projet.superficie = projet0.superficie
    /\ projet.modules = projet0.modules
    /\ projet.physio = projet0.physio
    /\ projet.meteo = projet0.meteo

\* C10: a step of hsami2 leaves the value stored at every position of every
\* series of s, etats and deltas as it is, the per-band snow record included.
C10_Instantanes ==
    [][/\ \A k \in DOMAIN s : \A t \in 1..Len(s[k]) : s'[k][t] = s[k][t]
       /\ \A k \in DOMAIN deltas :
            \A t \in 1..Len(deltas[k]) : deltas'[k][t] = deltas[k][t]
       /\ \A k \in DOMAIN etats :
            \A t \in 1..Len(etats[k]) :
                Contenu(k, etats'[k][t], tas') = Contenu(k, etats[k][t], tas)
      ]_vars

-----------------------------------------------------------------------------
(* The functions of the driver, called one at a time *)

\* values of the variables that a call of a single function leaves alone
Repos ==
    /\ projet = Projet(Base)
    /\ projet0 = projet
    /\ erreur = Aucune
    /\ i_pas = 0
    /\ pas = 1
    /\ tas = <<>>
    /\ termines = 0
    /\ etats = <<>>
    /\ deltas = <<>>

\* flows q handed to bilan_sorties with ratio_qbase (percent): without
\* wetland ratio_qbase and q[5] are zero, with the wetland a part of the
\* base flow q[0] comes from it
EntreesDebits ==
    {[fonction |-> "bilan_sorties", mhumide |-> m, ratio_qbase |-> r,
      q |-> <<q0, q1, q2, q3, 0, q5>>] :
        m \in {"0", "1"}, r \in {0, 25, 50}, q0 \in {0, 100, 300},
        q1 \in {0, 200}, q2 \in {0, 200}, q3 \in {-100, 200},
        q5 \in {0, 100}}

\* the inputs of EntreesDebits that the driver can produce
DebitsPossibles ==
    {e \in EntreesDebits :
        e.mhumide = "0" => (e.ratio_qbase = 0 /\ e.q[6] = 0)}

\* bilan_sorties builds the discharges of s
appel_bilan_sorties ==
    /\ pc = "appel"
    /\ appel.fonction = "bilan_sorties"
    /\ s' = Debits(appel.q, appel.ratio_qbase, appel.mhumide)
    /\ pc' = "retour"
    /\ UNCHANGED <<projet, projet0, erreur, i_pas, pas, etat, tas,
                   etat_avant, appel, termines, etats, deltas>>

InitSorties ==
    /\ Repos
    /\ pc = "appel"
    /\ appel \in DebitsPossibles
    /\ etat = <<>>
    /\ etat_avant = [etat |-> <<>>, tas |-> <<>>]
    /\ s = <<>>

NextSorties == appel_bilan_sorties

SpecSorties == InitSorties /\ [][NextSorties]_vars

-----------------------------------------------------------------------------
(* hsami_glace called step after step on a reservoir whose level moves *)

\* a step of hard frost
LigneGel == <<-40, -40, 0, 0>>

\* potential melts of the ice of a step, in 0.01 cm
PotentielsFonte == {-50, 2000}

\* levels of the reservoir; with coeff = <<0, 1, 0>> the level is the area
Niveaux == {NaN, 0, 1, 3, 5}

\* the four reservoir and ice configurations
ModulesGlace ==
    {valeurs_default,
     [valeurs_default EXCEPT !.reservoir = "1"],
     [valeurs_default EXCEPT !.reservoir = "1", !.glace_reservoir = "stefan"],
     [valeurs_default EXCEPT !.reservoir = "1", !.glace_reservoir = "mylake",
                             !.een = "mdj"]}

ProjetGlace(md) ==
    [Projet([Base EXCEPT !.modules = md, !.niveau = TRUE])
        EXCEPT !.physio.coeff = <<0, 1, 0>>]

\* residual of the ice submodule: entrees - sorties + etat[0] - etat[1]
BilanGlace(eeg0, eeg1, glace_vers_reservoir) ==
    0 - glace_vers_reservoir + SommeEeg(eeg0) - SommeEeg(eeg1)

\* the ice section of the driver on one row and one level
appel_hsami_glace ==
    /\ pc = "glace"
    /\ i_pas < MaxGlace
    /\ \E ligne \in {LigneBase, LigneGel}, niveau \in Niveaux :
         /\ (projet.modules.glace_reservoir = "mylake"
                /\ etat.reservoir_epaisseur_glace > 0) => ligne = LigneGel
         /\ \E physio \in {[projet.physio EXCEPT !.niveau = niveau]} :
            \E g \in {hsami_glace(projet.modules, projet.superficie, etat,
                          tas,
                          IF BrancheGlace(projet.modules.glace_reservoir,
                                          physio) = "niveau"
                          THEN <<[bassin |-> ligne, reservoir |-> ligne],
                                 physio, projet.param>>
                          ELSE <<>>)} :
              /\ g.erreur = Aucune
              /\ etat' = g.etats
              /\ etat_avant' = [etat |-> etat, tas |-> tas]
              /\ appel' = [fonction |-> "hsami_glace", ligne |-> ligne,
                           niveau |-> niveau]
              /\ s' = [glace_vers_reservoir |-> g.glace_vers_reservoir,
                       bassin_vers_reservoir |-> g.bassin_vers_reservoir]
              /\ deltas' = [glace |-> BilanGlace(etat.eeg, g.etats.eeg,
                                          g.glace_vers_reservoir)]
    /\ i_pas' = i_pas + 1
    /\ UNCHANGED <<projet, projet0, pc, erreur, pas, tas, termines, etats>>

InitGlace ==
    /\ projet \in {ProjetGlace(md) : md \in ModulesGlace}
    /\ projet0 = projet
    /\ pc = "glace"
    /\ erreur = Aucune
    /\ i_pas = 0
    /\ pas = 1
    /\ \E d \in {EtatDepart(projet, projet.modules, projet.superficie)} :
           /\ etat = d.etat
           /\ tas = d.tas
    /\ etat_avant = [etat |-> <<>>, tas |-> <<>>]
    /\ appel = [fonction |-> "", ligne |-> <<>>, niveau |-> NaN]
    /\ termines = 0
    /\ s = <<>>
    /\ etats = <<>>
    /\ deltas = <<>>

\* variant of fonte_eeg that takes the potential melt from every cell
fonte_eeg_sans_masque(eeg, potentiel_fonte, chaud) ==
    IF \A i \in DOMAIN eeg : eeg[i] <= 0
    THEN [erreur |-> Aucune, eeg |-> eeg]
    ELSE IF chaud
    THEN [erreur |-> Exception("AttributeError",
                               "hsami_interception.py:618"),
          eeg |-> eeg]
    ELSE IF potentiel_fonte > 0
    THEN [erreur |-> Aucune,
          eeg |-> [i \in DOMAIN eeg |-> eeg[i] - potentiel_fonte]]
    ELSE [erreur |-> Aucune, eeg |-> eeg]

\* melt of the glacier ice of dj_hsami once the snow has gone: the cells
\* that the potential melt exhausts are emptied, the other ones lose it;
\* chaud is t_moy > temp_ref_pluie
fonte_eeg(eeg, potentiel_fonte, chaud) ==
    IF \A i \in DOMAIN eeg : eeg[i] <= 0
    THEN [erreur |-> Aucune, eeg |-> eeg]
    ELSE IF chaud
    THEN [erreur |-> Exception("AttributeError",
                               "hsami_interception.py:618"),
          eeg |-> eeg]
    ELSE IF potentiel_fonte > 0
    THEN [erreur |-> Aucune,
          eeg |-> [i \in {j \in DOMAIN eeg : potentiel_fonte < eeg[j]} |->
                      eeg[i] - potentiel_fonte]]
    ELSE [erreur |-> Aucune, eeg |-> eeg]

\* the melt of the ice of the shelf on a step that ends without snow
appel_fonte_glace ==
    /\ pc = "glace"
    /\ i_pas < MaxGlace
    /\ etat.eeg # <<>>
    /\ \E potentiel_fonte \in PotentielsFonte, chaud \in BOOLEAN :
         \E f \in {fonte_eeg(etat.eeg, potentiel_fonte, chaud)} :
           /\ etat_avant' = [etat |-> etat, tas |-> tas]
           /\ appel' = [fonction |-> "dj_hsami", ligne |-> <<>>,
                        niveau |-> NaN, potentiel_fonte |-> potentiel_fonte]
           /\ etat' = [etat EXCEPT !.eeg = f.eeg]
           /\ erreur' = f.erreur
           /\ pc' = IF f.erreur # Aucune THEN "erreur" ELSE pc
    /\ i_pas' = i_pas + 1
    /\ UNCHANGED <<projet, projet0, pas, tas, termines, s, etats, deltas>>

NextGlace == appel_hsami_glace \/ appel_fonte_glace

SpecGlace == InitGlace /\ [][NextGlace]_vars

\* the areas of shelf ice before and after the last call of hsami_glace
prev == etat_avant.etat.reservoir_superficie_glace
new == etat.reservoir_superficie_glace

\* the cells of eeg whose content differs across the last call
CellulesChangees ==
    {i \in (DOMAIN etat.eeg) \cup (DOMAIN etat_avant.etat.eeg) :
        (IF i \in DOMAIN etat.eeg THEN etat.eeg[i] ELSE 0)
            # (IF i \in DOMAIN etat_avant.etat.eeg
               THEN etat_avant.etat.eeg[i] ELSE 0)}

\* C12: after every step, in every reservoir and ice configuration (no
\* reservoir, fixed reservoir area, Stefan, MyLake), ratio_bassin +
\* ratio_reservoir = 1 (the two ratios are held as areas in km2, so that
\* their sum is the area superficie[0] of the watershed).
C12_RatiosComplementaires ==
    (pc = "glace" /\ i_pas > 0) =>
        etat.ratio_bassin + etat.ratio_reservoir = projet.superficie[1]

\* the reservoir has left its nominal area under a cover of shelf ice
C12_Temoin ==
    /\ pc = "glace"
    /\ i_pas > 0
    /\ projet.modules.glace_reservoir = "stefan"
    /\ etat.ratio_reservoir # projet.superficie[2]
    /\ etat.reservoir_superficie_glace > 0

\* the content of the cell i of the vector eeg
Cellule(eeg, i) == IF i \in DOMAIN eeg THEN eeg[i] ELSE 0

\* the last call of hsami_glace went through the branch of a reservoir whose
\* area follows the level
GlaceVariable ==
    /\ pc = "glace"
    /\ i_pas > 0
    /\ projet.modules.reservoir = "1"
    /\ projet.modules.glace_reservoir \in {"stefan", "mylake"}
    /\ appel.fonction = "hsami_glace"

\* C13: when the area of shelf ice grows from prev to new, hsami_glace
\* writes thickness x 0.916 into exactly the cells prev+1 .. new of eeg and
\* into no other cell; when it shrinks from prev to new, it sums and zeroes
\* exactly the cells new+1 .. prev and no other cell.
C13_CellulesDuDepot ==
    GlaceVariable =>
        LET couche == (etat.reservoir_epaisseur_glace * densite_glace)
                          \div 100000
            avant == etat_avant.etat.eeg
        IN  /\ prev < new =>
                /\ \A i \in (prev + 1)..new : Cellule(etat.eeg, i) = couche
                /\ CellulesChangees \subseteq (prev + 1)..new
                /\ s.glace_vers_reservoir = -(couche * (new - prev))
            /\ new < prev =>
                /\ \A i \in (new + 1)..prev : Cellule(etat.eeg, i) = 0
                /\ CellulesChangees \subseteq (new + 1)..prev
                /\ s.glace_vers_reservoir =
                       SommeEeg([i \in (new + 1)..prev |->
                                    Cellule(avant, i)])

\* C14: every element of eeg is >= 0 after every step, whatever the ice
\* option, also after the steps that melt ice of eeg.
C14_EegPositif ==
    pc \in {"glace", "erreur"} => \A i \in DOMAIN etat.eeg : etat.eeg[i] >= 0

\* a melt has emptied one cell of the shelf and thinned another one
C14_Temoin ==
    /\ pc = "glace"
    /\ appel.fonction = "dj_hsami"
    /\ appel.potentiel_fonte > 0
    /\ \E i \in DOMAIN etat_avant.etat.eeg :
           etat_avant.etat.eeg[i] > 0 /\ i \notin DOMAIN etat.eeg
    /\ \E i \in DOMAIN etat.eeg :
           /\ etat.eeg[i] > 0
           /\ etat.eeg[i] = etat_avant.etat.eeg[i] - appel.potentiel_fonte

\* C15: over any sequence of steps in which the area of shelf ice grows and
\* shrinks, the change of sum(eeg) across the call of hsami_glace equals
\* -glace_vers_reservoir, so that the residual of the ice submodule is zero.
C15_BilanGlace ==
    (GlaceVariable /\ new # prev) =>
        /\ SommeEeg(etat.eeg) - SommeEeg(etat_avant.etat.eeg)
               = -s.glace_vers_reservoir
        /\ deltas.glace = 0

\* C16: for every length memoire of the routing memory and every step of
\* the main loop the residual of the horizontal routing is zero:
\* sum(apport_vertical) - sum(apport_horizontal) + the water of the routing
\* buffer and of the intermediate reserve before the step - the same
\* storage after the step = 0.
C16_BilanHorizontal ==
    (ProjetValide /\ "horizontal" \in DOMAIN deltas) =>
        \A t \in 1..Len(deltas.horizontal) : deltas.horizontal[t] = 0

-----------------------------------------------------------------------------
(* hsami_ruissellement_surface called on its own *)

\* param with the parameters of the two layers of soil: thicknesses in
\* 0.01 cm, porosity, field capacity and wilting point in per cent
param_3couches ==
    param @@ (24 :> 1) @@ (36 :> 1) @@ (37 :> 1) @@ (38 :> 0) @@
    (39 :> 2000) @@ (40 :> 3000) @@ (41 :> 10) @@ (42 :> 25) @@
    (43 :> 25) @@ (44 :> 40) @@ (45 :> 40)

EntreesRuissellement ==
    {[fonction |-> "hsami_ruissellement_surface", nb_pas |-> n,
      infiltration |-> i, sol |-> c, eau_surface |-> e,
      etat |-> [gel |-> g, sol |-> <<x, NaN>>]] :
        n \in 1..MaxPas, i \in Valides.infiltration, c \in Valides.sol,
        e \in {0, 10, 60, 150, 400}, g \in {0, 100, 900},
        x \in {0, 200, 800, 1000}}

appel_hsami_ruissellement_surface ==
    /\ pc = "appel"
    /\ appel.fonction = "hsami_ruissellement_surface"
    /\ \E r \in {hsami_ruissellement_surface(appel.nb_pas, param_3couches,
                     appel.etat, appel.eau_surface,
                     [valeurs_default EXCEPT
                         !.infiltration = appel.infiltration,
                         !.sol = appel.sol])} :
           /\ s' = [ruissellement_surface |-> r.ruissellement_surface,
                    infiltration |-> r.infiltration]
           /\ erreur' = r.erreur
    /\ pc' = "retour"
    /\ UNCHANGED <<projet, projet0, i_pas, pas, etat, tas, etat_avant, appel,
                   termines, etats, deltas>>

InitRuissellement ==
    /\ Repos
    /\ pc = "appel"
    /\ appel \in EntreesRuissellement
    /\ etat = <<>>
    /\ etat_avant = [etat |-> <<>>, tas |-> <<>>]
    /\ s = <<>>

NextRuissellement == appel_hsami_ruissellement_surface

SpecRuissellement == InitRuissellement /\ [][NextRuissellement]_vars

\* C17: for every infiltration option and every eau_surface >= 0,
\* hsami_ruissellement_surface returns two non-negative depths
\* (ruissellement_surface, infiltration) whose sum is eau_surface; for
\* green_ampt and scs_cn the pair is (0, eau_surface).
C17_Partage ==
    (pc = "retour" /\ appel.fonction = "hsami_ruissellement_surface") =>
        /\ erreur = Aucune
        /\ s.ruissellement_surface >= 0
        /\ s.infiltration >= 0
        /\ s.ruissellement_surface + s.infiltration = appel.eau_surface
        /\ appel.infiltration \in {"green_ampt", "scs_cn"} =>
               /\ s.ruissellement_surface = 0
               /\ s.infiltration = appel.eau_surface

\* hsami has split the surface water of a frozen soil, whose threshold is
\* the minimal one, into runoff and infiltration
C17_Temoin ==
    /\ pc = "retour"
    /\ appel.fonction = "hsami_ruissellement_surface"
    /\ appel.infiltration = "hsami"
    /\ appel.etat.gel > 0
    /\ s.ruissellement_surface > 0
    /\ s.infiltration > 0
    /\ s.infiltration < appel.eau_surface

-----------------------------------------------------------------------------
(* ecoulement_3couches called on its own *)

\* sol_max, sol_min and the limit of the pumping pfp * z[0] of the project
sol_max_3couches ==
    <<Fraction(param_3couches[39], param_3couches[44]),
      Fraction(param_3couches[40], param_3couches[45])>>

sol_min_3couches ==
    <<Fraction(param_3couches[39], param_3couches[42]),
      Fraction(param_3couches[40], param_3couches[43])>>

limite_pompage == Fraction(param_3couches[39], param_3couches[41])

\* states within the bounds of the layers, with the water handed over by
\* the interception and the surface runoff
EntreesVertical ==
    {[fonction |-> "ecoulement_3couches", nb_pas |-> n, infiltration |-> i,
      qbase |-> b, offre |-> o, demande |-> d, ruissellement_surface |-> r,
      etat |-> [sol |-> <<x, y>>, nappe |-> w, gel |-> 0,
                neige_au_sol |-> 0]] :
        n \in 1..MaxPas, i \in Valides.infiltration, b \in Valides.qbase,
        o \in {0, 50, 300}, d \in {0, 30, 400}, r \in {0, 20},
        x \in {limite_pompage, 350, sol_min_3couches[1], 700,
               sol_max_3couches[1]},
        y \in {sol_min_3couches[2], 1000, sol_max_3couches[2]},
        w \in {0, 995, 1000}}

appel_ecoulement_3couches ==
    /\ pc = "appel"
    /\ appel.fonction = "ecoulement_3couches"
    /\ \E r \in {ecoulement_3couches(appel.nb_pas, param_3couches,
                     appel.etat, appel.offre, appel.demande,
                     [valeurs_default EXCEPT
                         !.infiltration = appel.infiltration,
                         !.qbase = appel.qbase, !.sol = "3couches"],
                     appel.ruissellement_surface, <<0, 0, 0, 0, 0>>,
                     <<0, 0, 0, 0, 0>>)} :
           /\ etat' = r.etat
           /\ s' = [apport |-> r.apport, etr |-> r.etr]
           /\ erreur' = r.erreur
    /\ pc' = "retour"
    /\ UNCHANGED <<projet, projet0, i_pas, pas, tas, etat_avant, appel,
                   termines, etats, deltas>>

InitVertical ==
    /\ Repos
    /\ pc = "appel"
    /\ appel \in EntreesVertical
    /\ etat = appel.etat
    /\ etat_avant = [etat |-> <<>>, tas |-> <<>>]
    /\ s = <<>>

NextVertical == appel_ecoulement_3couches

SpecVertical == InitVertical /\ [][NextVertical]_vars

-----------------------------------------------------------------------------
(* Steps without precipitation *)

\* the last driver step has completed on a row without rain or snow, in a
\* project without reservoir
PasSec ==
    /\ pc \in {"chauffe", "simulation"}
    /\ appel.numero > 0
    /\ modules0.reservoir = "0"
    /\ Ligne(projet0.meteo.bassin, appel.ligne)[3] = 0
    /\ Ligne(projet0.meteo.bassin, appel.ligne)[4] = 0

C20_MhumideNul ==
    (ProjetValide /\ modules0.mhumide = "0") =>
        /\ pc = "erreur" => erreur.lieu # "hsami2_noyau.py:989"
        /\ "Qmh" \in DOMAIN s =>
               \A t \in 1..Len(s.Qmh) : s.Qmh[t] = 0
        /\ "mhumide" \in DOMAIN deltas =>
               \A t \in 1..Len(deltas.mhumide) :
                   deltas.mhumide[t] =
                       [forme |-> "scalaire", valeur |-> <<0>>]

-----------------------------------------------------------------------------
(* hsami2_noyau.py: the unit hydrographs of a step *)

MaxMemoire == 4

\* an imposed unit hydrograph of the given length (projet["hu_surface"],
\* projet["hu_inter"]): its weights rise where the computed ones fall
Impose(longueur) == [t \in 1..longueur |-> Puissance2(t - 1)]

\* the imposed hydrographs a project can hold, <<>> standing for an absent
\* key
Imposes == {<<>>} \cup {Impose(l) : l \in 1..MaxMemoire}

\* projet as far as the hydrographs read it
ProjetHu(memoire, hu_surface, hu_inter) ==
    [memoire |-> memoire]
        @@ (IF hu_surface = <<>> THEN [k \in {} |-> 0]
            ELSE [hu_surface |-> hu_surface])
        @@ (IF hu_inter = <<>> THEN [k \in {} |-> 0]
            ELSE [hu_inter |-> hu_inter])

\* the array hydrogrammes built for the horizontal routing, as its two
\* columns hydrogrammes[:, 0] and hydrogrammes[:, 1], with the warnings
\* printed. The computed hydrograph is an array of shape (1, n), n =
\* memoire; an imposed hu_surface makes an array of shape (len, 2).
\*  - neither imposed: the two computed rows are stacked and transposed;
\*  - hu_surface only: the computed row (1, n) is stacked under the array
\*    (len, 2), which numpy refuses unless n = 2; with n = 2 the transposed
\*    array has the rows of the stack as columns;
\*  - hu_inter only: hu_inter is assigned to the column 1 of the computed
\*    array (1, n), a column of one element;
\*  - both: hu_inter is assigned to the column 1 of the array (len, 2).
hydrogrammes_du_pas(p, param_, nb_pas) ==
    LET n == p.memoire
        calcule == hsami_hydrogramme(param_[19], n)
        surface == "hu_surface" \in DOMAIN p
        inter == "hu_inter" \in DOMAIN p
        avertissements ==
            {cle \in DOMAIN p \ {"memoire"} : Len(p[cle]) # p.memoire}
        Echec(type, lieu) ==
            [erreur |-> [type |-> type, lieu |-> lieu],
             avertissements |-> avertissements, hydrogrammes |-> <<>>]
        Succes(h) ==
            [erreur |-> Aucune, avertissements |-> avertissements,
             hydrogrammes |-> h]
    IN  CASE ~surface /\ ~inter -> Succes(<<calcule, calcule>>)
          [] surface /\ ~inter ->
                IF n # 2 THEN Echec("ValueError", "hsami2_noyau.py:735")
                ELSE Succes(<<<<p.hu_surface[1], 0>>,
                              IF Len(p.hu_surface) >= 2
                              THEN <<p.hu_surface[2], 0>>
                              ELSE calcule>>)
          [] ~surface /\ inter ->
                IF n < 2 THEN Echec("IndexError", "hsami2_noyau.py:732")
                ELSE IF Len(p.hu_inter) # 1
                THEN Echec("ValueError", "hsami2_noyau.py:732")
                ELSE Succes(<<<<calcule[1]>>, <<p.hu_inter[1]>>>>)
          [] surface /\ inter ->
                IF Len(p.hu_inter) \notin {1, Len(p.hu_surface)}
                THEN Echec("ValueError", "hsami2_noyau.py:732")
                ELSE Succes(<<p.hu_surface,
                              [k \in 1..Len(p.hu_surface) |->
                                  p.hu_inter[IF Len(p.hu_inter) = 1 THEN 1
                                             ELSE k]]>>)

\* numpy's broadcasting of a column of hydrogrammes against a column of
\* eau_hydrogrammes (memoire rows): equal lengths, or one element repeated
Diffusable(colonne, memoire) == Len(colonne) \in {1, memoire}

Diffuse(colonne, memoire) ==
    [k \in 1..memoire |-> colonne[IF Len(colonne) = 1 THEN 1 ELSE k]]

EntreesHydrogrammes ==
    {[fonction |-> "hydrogrammes", nb_pas |-> n,
      projet |-> ProjetHu(m, hs, hi),
      apport_vertical |-> <<0, a, 2 * a, 0, 0, 0>>] :
        n \in 1..MaxPas, m \in 2..MaxMemoire, hs \in Imposes,
        hi \in Imposes, a \in {0, 10}}

\* section 6 of the driver: the hydrographs of the step, then the
\* horizontal routing of an empty watershed with them
appel_hydrogrammes ==
    /\ pc = "appel"
    /\ appel.fonction = "hydrogrammes"
    /\ \E r \in {hydrogrammes_du_pas(appel.projet, param, appel.nb_pas)} :
         \E m \in {appel.projet.memoire} :
           IF r.erreur # Aucune
           THEN /\ erreur' = r.erreur
                /\ s' = [avertissements |-> r.avertissements]
           ELSE IF ~Diffusable(r.hydrogrammes[1], m)
           THEN /\ erreur' = [type |-> "ValueError",
                              lieu |-> "hsami_ecoulement_horizontal.py:50"]
                /\ s' = [avertissements |-> r.avertissements]
           ELSE IF ~Diffusable(r.hydrogrammes[2], m)
           THEN /\ erreur' = [type |-> "ValueError",
                              lieu |-> "hsami_ecoulement_horizontal.py:70"]
                /\ s' = [avertissements |-> r.avertissements]
           ELSE /\ erreur' = Aucune
                /\ s' = [avertissements |-> r.avertissements,
                         hydrogrammes |-> r.hydrogrammes,
                         horizontal |->
                             hsami_ecoulement_horizontal(appel.nb_pas,
                                 param[18], 0,
                                 <<[k \in 1..m |-> 0], [k \in 1..m |-> 0],
                                   [k \in 1..m |-> 0]>>,
                                 <<Diffuse(r.hydrogrammes[1], m),
                                   Diffuse(r.hydrogrammes[2], m)>>,
                                 appel.apport_vertical, valeurs_default,
                                 SommeTout(hsami_hydrogramme(param[19],
                                                             m)))]
    /\ pc' = "retour"
    /\ UNCHANGED <<projet, projet0, i_pas, pas, etat, tas, etat_avant, appel,
                   termines, etats, deltas>>

InitHydrogrammes ==
    /\ Repos
    /\ pc = "appel"
    /\ appel \in EntreesHydrogrammes
    /\ etat = <<>>
    /\ etat_avant = [etat |-> <<>>, tas |-> <<>>]
    /\ s = <<>>

NextHydrogrammes == appel_hydrogrammes

SpecHydrogrammes == InitHydrogrammes /\ [][NextHydrogrammes]_vars

\* the hydrograph the step must use for a key of the project: the imposed
\* one when present with the length memoire, the computed one otherwise
Attendu(p, cle) ==
    IF cle \in DOMAIN p /\ Len(p[cle]) = p.memoire THEN p[cle]
    ELSE hsami_hydrogramme(param[19], p.memoire)

\* C21: for each of hu_surface and hu_inter independently, the imposed
\* hydrograph is used verbatim when its length equals memoire; when it is
\* absent or of another length the hydrograph computed from the parameters
\* is used, a wrong length only prints a warning, and the step completes.
C21_HydrogrammesImposes ==
    (pc = "retour" /\ appel.fonction = "hydrogrammes") =>
        /\ erreur = Aucune
        /\ s.hydrogrammes[1] = Attendu(appel.projet, "hu_surface")
        /\ s.hydrogrammes[2] = Attendu(appel.projet, "hu_inter")
        /\ s.avertissements =
               {cle \in DOMAIN appel.projet \ {"memoire"} :
                   Len(appel.projet[cle]) # appel.projet.memoire}

\* the two hydrographs imposed with the length memoire are the ones used
C21_Verbatim ==
    /\ pc = "retour"
    /\ appel.fonction = "hydrogrammes"
    /\ erreur = Aucune
    /\ DOMAIN appel.projet = {"memoire", "hu_surface", "hu_inter"}
    /\ Len(appel.projet.hu_surface) = appel.projet.memoire
    /\ s.hydrogrammes = <<appel.projet.hu_surface, appel.projet.hu_inter>>

-----------------------------------------------------------------------------
(* hsami_mhumide.py *)

MaxPasMhumide == 4

\* param[47] hmax in cm, param[48] p_norm in percent, param[49] such that
\* 10 ** param[49] is the conductivity in hundredths of cm per day
param_mhumide == param @@ (47 :> 1) @@ (48 :> 30) @@ (49 :> 0)

\* physiography with a wetland of at most 1 km2
physio_mhumide ==
    [latitude |-> 45, samax |-> 1, occupation |-> <<50, 50>>,
     coeff |-> <<0, 0, 2>>]

\* the wetland of the initial state: normal area (hectares) and normal
\* volume (m3); ratio_MH is kept as the area in hectares over
\* superficie[0] * 100
EtatMhumide(param_, physio, superficie) ==
    [mh_surf |-> Fraction(physio.samax * 100, param_[48]),
     mh_vol |-> Fraction(param_[47] * physio.samax * 100 * 100, param_[48]),
     ratio_MH |-> Fraction(physio.samax * 100, param_[48]),
     mhumide |-> Fraction(param_[47] * physio.samax * 100 * 100, param_[48]),
     ratio_qbase |-> 0]

\* One step of the wetland. Depths are in hundredths of cm, so that a depth
\* times an area in hectares is a volume in m3. Alpha is 1 whatever the
\* parameters, hence mh_surf = Beta * Vactuel with Beta = SAmax / Vmax.
\* The returned depths apport[0], apport[5] and etr_mh are multiplied by
\* SupBV; ratio_qbase is in percent, NaN when numpy divides 0 by 0.
hsami_mhumide(apport, param_, etat_, demande, etr, physio, superficie) ==
    LET hmax == param_[47]
        p_norm == param_[48]
        ksat == Puissance10(param_[49])
        Vinit == etat_.mh_vol
        SA == etat_.mh_surf
        SupBV == superficie[1] * 100
        SAmax == physio.samax * 100
        Vmax == hmax * SAmax * 100
        Vnorm == Fraction(Vmax, p_norm)
        Vmin == Vnorm \div 2
        Vb == apport[1] * SA
        Vi == apport[2] * SA
        Vs == apport[3] * SA
        Vactuel0 == Vinit + Vb + Vi + Vs
        Vsurf == IF Vactuel0 <= Vnorm THEN 0
                 ELSE IF Vactuel0 <= Vmax THEN (Vactuel0 - Vnorm) \div 10
                 ELSE (Vactuel0 - Vmax) + (Vmax - Vnorm) \div 10
        Vactuel1 == Vactuel0 - Vsurf
        \* offre_evap > demande, both times SA
        Vevap == IF Vactuel1 - Vmin > demande * SA THEN demande * SA
                 ELSE Vactuel1 - Vmin
        Vactuel2 == Vactuel1 - Vevap
        demande_seep == ksat * SA
        offre_seep == Vactuel2 - Vmin
        Vseep == IF offre_seep > demande_seep THEN demande_seep
                 ELSE offre_seep
        Vactuel == Vactuel2 - Vseep
        mh_surf == (Vactuel * SAmax) \div Vmax
        qbase_mh == (Vseep * etat_.ratio_MH) \div SA
        qsurf_mh == (Vsurf * etat_.ratio_MH) \div SA
        etr_mh == (Vevap * etat_.ratio_MH) \div SA
        qbase_bv == apport[1] * (SupBV - etat_.ratio_MH)
        qintr_bv == apport[2] * (SupBV - etat_.ratio_MH)
        qsurf_bv == apport[3] * (SupBV - etat_.ratio_MH)
    IN  [apport |-> <<qbase_mh + qbase_bv, qintr_bv, qsurf_bv,
                      apport[4] * SupBV, apport[5] * SupBV, qsurf_mh>>,
         etr |-> etr \o <<etr_mh>>,
         etat |->
             [mh_surf |-> mh_surf,
              mh_vol |-> Vactuel,
              ratio_qbase |->
                  IF qbase_bv + qbase_mh = 0 THEN NaN
                  ELSE (100 * qbase_mh) \div (qbase_bv + qbase_mh),
              ratio_MH |-> mh_surf,
              mhumide |-> Vactuel]]

\* the vertical flows and the evaporative demand a step can hand to the
\* wetland: a dry step without base flow, or a wet one
EntreesMhumide ==
    {[fonction |-> "hsami_mhumide", apport |-> a, demande |-> d] :
        a \in {<<0, 0, 0, 0, 0>>, <<10, 5, 100, 0, 0>>,
               <<0, 0, 400, 0, 0>>},
        d \in {0, 25, 50}}

appel_hsami_mhumide ==
    /\ pc = "mhumide"
    /\ i_pas < MaxPasMhumide
    /\ \E e \in EntreesMhumide :
         \E r \in {hsami_mhumide(e.apport, param_mhumide, etat, e.demande,
                                 <<0, 0, 0, 0, 0>>, physio_mhumide,
                                 Base.superficie)} :
           /\ appel' = e
           /\ etat_avant' = [etat |-> etat, tas |-> <<>>]
           /\ etat' = r.etat
           /\ s' = [apport |-> r.apport, etr |-> r.etr]
    /\ i_pas' = i_pas + 1
    /\ UNCHANGED <<projet, projet0, pc, erreur, pas, tas, termines, etats,
                   deltas>>

InitMhumide ==
    /\ Repos
    /\ pc = "mhumide"
    /\ appel = <<>>
    /\ etat = EtatMhumide(param_mhumide, physio_mhumide, Base.superficie)
    /\ etat_avant = [etat |-> <<>>, tas |-> <<>>]
    /\ s = <<>>

NextMhumide == appel_hsami_mhumide

SpecMhumide == InitMhumide /\ [][NextMhumide]_vars

\* C22: with the wetland enabled, after every step ratio_qbase is a
\* defined number of [0, 1], also when the base flows of the watershed and
\* of the wetland are both zero.
C22_RatioQbase ==
    (pc = "mhumide" /\ i_pas > 0) =>
        /\ etat.ratio_qbase # NaN
        /\ etat.ratio_qbase \in 0..100

\* a step with base flow from the wetland only: the ratio is 1
C22_Temoin ==
    /\ pc = "mhumide"
    /\ i_pas > 0
    /\ appel.apport[1] = 0
    /\ etat.ratio_qbase = 100

-----------------------------------------------------------------------------
(* hsami_glace.py: the seasons of Stefan *)

MaxPasStefan == 36

\* the ice variables of the initial state
EtatStefan ==
    [cumdegGel |-> 0, obj_gel |-> QuartDegre * ObjGelInitial,
     dernier_gel |-> 0, reservoir_epaisseur_glace |-> 0,
     reservoir_superficie |-> Base.superficie[2],
     reservoir_superficie_glace |-> 0,
     reservoir_superficie_ref |-> Base.superficie[2]]

\* four times the mean frost temperature of a row
moyenneGel(ligne) == Min(0, 2 * ligne[1] + ligne[2])

\* one step of Stefan on a cold or a warm row, the level of the reservoir
\* being unknown or 1
appel_Stefan ==
    /\ pc = "stefan"
    /\ i_pas < MaxPasStefan
    /\ \E ligne \in {LigneBase, LigneGel}, niveau \in {NaN, 1} :
         \E r \in {Stefan(ligne, param[46],
                          [niveau |-> niveau, coeff |-> <<0, 1, 0>>],
                          etat)} :
           /\ appel' = [fonction |-> "Stefan", ligne |-> ligne,
                        niveau |-> niveau]
           /\ etat_avant' = [etat |-> etat, tas |-> <<>>]
           /\ etat' = r.etats
           /\ s' = [superficie_glace |-> r.superficie_glace,
                    superficie_reservoir |-> r.superficie_reservoir]
    /\ i_pas' = i_pas + 1
    /\ UNCHANGED <<projet, projet0, pc, erreur, pas, tas, termines, etats,
                   deltas>>

InitStefan ==
    /\ Repos
    /\ pc = "stefan"
    /\ appel = <<>>
    /\ etat = EtatStefan
    /\ etat_avant = [etat |-> <<>>, tas |-> <<>>]
    /\ s = <<>>

NextStefan == appel_Stefan

SpecStefan == InitStefan /\ [][NextStefan]_vars

\* the step that has just been made belongs to the ice season: the frost
\* degree-days are below the objective the step started with
EnSaison == etat.cumdegGel < etat_avant.etat.obj_gel

-----------------------------------------------------------------------------
(* hsami_ecoulement_vertical.py: the vertical flow of either soil *)

\* the choice of the soil model at the head of hsami_ecoulement_vertical
ecoulement_vertical(nb_pas, param_, etat_, offre, demande, modules, ruissellement_surface, apport_vertical, etr) ==
    IF modules.sol = "3couches"
    THEN ecoulement_3couches(nb_pas, param_, etat_, offre, demande, modules,
                             ruissellement_surface, apport_vertical, etr)
    ELSE hsami_ecoulement_vertical(nb_pas, param_, etat_, offre, demande,
                                   modules, ruissellement_surface,
                                   apport_vertical, etr)

\* the depths handed over by the interception: precipitation less
\* evaporation on the reservoir in apport_vertical[3], melt of the ice in
\* apport_vertical[4]; sublimation, evaporation of the snow and of the
\* reservoir in etr[0], etr[1], etr[4]
apport_interception == <<0, 0, 0, -30, 7>>

etr_interception == <<3, 4, 0, 0, 9>>

EntreesEcoulementVertical ==
    {[fonction |-> "hsami_ecoulement_vertical", nb_pas |-> n, sol |-> c,
      infiltration |-> i, qbase |-> b, offre |-> o, demande |-> d,
      ruissellement_surface |-> r,
      etat |-> [sol |-> IF c = "hsami" THEN <<x, NaN>>
                        ELSE <<x, sol_min_3couches[2]>>,
                nappe |-> w, gel |-> 0, neige_au_sol |-> 0]] :
        n \in 1..MaxPas, c \in {"hsami", "3couches"},
        i \in Valides.infiltration, b \in Valides.qbase,
        o \in {0, 50, 300}, d \in {0, 30, 400}, r \in {0, 20},
        x \in {sol_min_3couches[1], 700}, w \in {0, 995}}

appel_hsami_ecoulement_vertical ==
    /\ pc = "appel"
    /\ appel.fonction = "hsami_ecoulement_vertical"
    /\ \E r \in {ecoulement_vertical(appel.nb_pas, param_3couches,
                     appel.etat, appel.offre, appel.demande,
                     [valeurs_default EXCEPT
                         !.infiltration = appel.infiltration,
                         !.qbase = appel.qbase, !.sol = appel.sol],
                     appel.ruissellement_surface, apport_interception,
                     etr_interception)} :
           /\ etat' = r.etat
           /\ s' = [apport |-> r.apport, etr |-> r.etr]
           /\ erreur' = r.erreur
    /\ pc' = "retour"
    /\ UNCHANGED <<projet, projet0, i_pas, pas, tas, etat_avant, appel,
                   termines, etats, deltas>>

InitEcoulementVertical ==
    /\ Repos
    /\ pc = "appel"
    /\ appel \in EntreesEcoulementVertical
    /\ etat = appel.etat
    /\ etat_avant = [etat |-> <<>>, tas |-> <<>>]
    /\ s = <<>>

NextEcoulementVertical == appel_hsami_ecoulement_vertical

SpecEcoulementVertical ==
    InitEcoulementVertical /\ [][NextEcoulementVertical]_vars

\* C24: for every combination of sol, infiltration and qbase, the vertical
\* flow changes only apport_vertical[0..2] and etr[2..3]: the depth of the
\* open water apport_vertical[3], the melt of the ice apport_vertical[4]
\* and the other components of etr come back as they were handed over.
C24_CadreVertical ==
    (pc = "retour" /\ appel.fonction = "hsami_ecoulement_vertical") =>
        /\ s.apport[4] = apport_interception[4]
        /\ s.apport[5] = apport_interception[5]
        /\ s.etr[1] = etr_interception[1]
        /\ s.etr[2] = etr_interception[2]
        /\ s.etr[5] = etr_interception[5]

\* the one-layer soil has infiltrated and drained, leaving the two depths
\* of the reservoir as they were
C24_Temoin ==
    /\ pc = "retour"
    /\ appel.fonction = "hsami_ecoulement_vertical"
    /\ appel.sol = "hsami"
    /\ appel.infiltration = "scs_cn"
    /\ s.apport[1] > 0
    /\ s.apport[4] = apport_interception[4]
    /\ s.apport[5] = apport_interception[5]

-----------------------------------------------------------------------------
(* hsami_interception.py: the melt of the ice of the shelf in dj_hsami *)

\* number of cells of etat["eeg"]
LongueurEeg == 5000

\* the cell i of eeg, zero when it holds no ice
Glace(eeg, i) == IF i \in DOMAIN eeg THEN eeg[i] ELSE 0

\* The end of the warm branch of dj_hsami on a step that ends without
\* snow.  neige is TRUE when there was snow at the start of the branch
\* (the melt of the step has removed it), FALSE when there was none;
\* t_moy_chaud is t_moy > temp_ref_pluie.  With snow at the start the
\* potential melt and t_moy are those computed for the ice; without snow
\* the branch reads t_moy, which no statement has assigned.  mask_pf_eeg
\* holds every cell of the array whose content is at most the potential
\* melt, the empty ones included.
fonte_glace(eeg, neige, potentiel_fonte, t_moy_chaud, apport_vertical) ==
    LET Echec(type, lieu) ==
            [erreur |-> Exception(type, lieu), eeg |-> eeg,
             apport_vertical |-> apport_vertical]
        mask_pf_eeg == {i \in DOMAIN eeg : potentiel_fonte >= eeg[i]}
        nombre == LongueurEeg - Cardinality(DOMAIN eeg \ mask_pf_eeg)
    IN  IF \A i \in DOMAIN eeg : eeg[i] <= 0
        THEN [erreur |-> Aucune, eeg |-> eeg,
              apport_vertical |-> apport_vertical]
        ELSE IF ~neige
        THEN Echec("UnboundLocalError", "hsami_interception.py:680")
        ELSE IF t_moy_chaud
        THEN Echec("AttributeError", "hsami_interception.py:618")
        ELSE IF potentiel_fonte > 0
        THEN [erreur |-> Aucune,
              eeg |-> [i \in DOMAIN eeg \ mask_pf_eeg |->
                          eeg[i] - potentiel_fonte],
              apport_vertical |->
                  [apport_vertical EXCEPT
                      ![5] = @ + SommeEeg([i \in mask_pf_eeg |-> eeg[i]])
                               + potentiel_fonte * nombre]]
        ELSE [erreur |-> Aucune, eeg |-> eeg,
              apport_vertical |-> apport_vertical]

\* shelves of a few cells holding one or two deposits of 17.84 cm each,
\* with the potential melt of the step
EntreesFonteGlace ==
    {[fonction |-> "fonte_glace", eeg |-> e, neige |-> n,
      potentiel_fonte |-> f, t_moy_chaud |-> c] :
        e \in UNION {[d -> {1784, 3568}] :
                        d \in SUBSET (1..MaxSupp)},
        n \in BOOLEAN, f \in {-50, 500, 2000}, c \in BOOLEAN}

appel_fonte_eeg ==
    /\ pc = "appel"
    /\ appel.fonction = "fonte_glace"
    /\ \E r \in {fonte_glace(appel.eeg, appel.neige, appel.potentiel_fonte,
                             appel.t_moy_chaud, apport_interception)} :
           /\ etat' = [eeg |-> r.eeg]
           /\ s' = [apport_vertical |-> r.apport_vertical]
           /\ erreur' = r.erreur
    /\ pc' = "retour"
    /\ UNCHANGED <<projet, projet0, i_pas, pas, tas, etat_avant, appel,
                   termines, etats, deltas>>

InitFonteGlace ==
    /\ Repos
    /\ pc = "appel"
    /\ appel \in EntreesFonteGlace
    /\ etat = [eeg |-> appel.eeg]
    /\ etat_avant = [etat |-> <<>>, tas |-> <<>>]
    /\ s = <<>>

NextFonteGlace == appel_fonte_eeg

SpecFonteGlace == InitFonteGlace /\ [][NextFonteGlace]_vars

\* C25: with een in {hsami, dj}, on a warm step that ends without snow on
\* the ground while eeg holds ice, the step completes, each cell of eeg
\* loses min(potentiel_fonte, eeg[i]) and apport_vertical[4] grows by the
\* total depth taken from eeg, whether the snow has gone during the step
\* or was already absent at its start.
C25_FonteGlace ==
    (/\ pc = "retour"
     /\ appel.fonction = "fonte_glace"
     /\ appel.potentiel_fonte > 0
     /\ \E i \in DOMAIN appel.eeg : appel.eeg[i] > 0) =>
        /\ erreur = Aucune
        /\ \A i \in DOMAIN appel.eeg :
               Glace(etat.eeg, i) =
                   appel.eeg[i] - Min(appel.potentiel_fonte, appel.eeg[i])
        /\ s.apport_vertical[5] - apport_interception[5] =
               SommeEeg(appel.eeg) - SommeEeg(etat.eeg)

\* a melt that completes: the snow has gone during a step that is not
\* warmer than temp_ref_pluie, and a cell of the shelf has thinned
C25_Temoin ==
    /\ pc = "retour"
    /\ appel.fonction = "fonte_glace"
    /\ erreur = Aucune
    /\ appel.neige
    /\ \E i \in DOMAIN etat.eeg :
           etat.eeg[i] = appel.eeg[i] - appel.potentiel_fonte
    /\ s.apport_vertical[5] > apport_interception[5]

-----------------------------------------------------------------------------
(* hsami_interception.py: the ice of the shelf in mdj_alt *)

\* The two blocks of mdj_alt that make the ice evolve, in the band i_z of
\* the loop `for i_z in range(n)`.  Both are guarded by i_z == n.  neige
\* is TRUE in the branch with snow or snowfall (first block, which needs
\* the snow to have gone), FALSE in the branch without; froid is
\* tmoy_glace < temperature_de_fonte[i_z]; potentiel_fonte is the melt of
\* the energy budget of the band.
glace_bande(i_z, n, neige, froid, potentiel_fonte, eeg, apport_vertical) ==
    LET Echec(type, lieu) ==
            [erreur |-> Exception(type, lieu), eeg |-> eeg,
             apport_vertical |-> apport_vertical]
        Inchange == [erreur |-> Aucune, eeg |-> eeg,
                     apport_vertical |-> apport_vertical]
        fondues == {i \in DOMAIN eeg : potentiel_fonte >= eeg[i]}
    IN  IF i_z # n THEN Inchange
        ELSE IF \A i \in DOMAIN eeg : eeg[i] <= 0 THEN Inchange
        ELSE IF neige
        THEN Echec("AttributeError", "hsami_interception.py:1388")
        ELSE IF froid
        THEN Echec("UnboundLocalError", "hsami_interception.py:1541")
        ELSE IF potentiel_fonte > 0
        THEN [erreur |-> Aucune,
              eeg |-> [i \in DOMAIN eeg \ fondues |->
                          eeg[i] - potentiel_fonte],
              apport_vertical |->
                  [apport_vertical EXCEPT
                      ![5] = @ + SommeEeg([i \in fondues |-> eeg[i]])
                               + potentiel_fonte
                                   * Cardinality(DOMAIN eeg \ fondues)]]
        ELSE Inchange

RECURSIVE glace_bandes(_, _, _, _, _, _, _)
\* the bands i_z..n-1 of the loop of mdj_alt, as far as the ice goes
glace_bandes(i_z, n, neige, froid, potentiel_fonte, eeg, apport_vertical) ==
    IF i_z >= n
    THEN [erreur |-> Aucune, eeg |-> eeg,
          apport_vertical |-> apport_vertical]
    ELSE LET b == glace_bande(i_z, n, neige, froid, potentiel_fonte, eeg,
                              apport_vertical)
         IN  IF b.erreur # Aucune THEN b
             ELSE glace_bandes(i_z + 1, n, neige, froid, potentiel_fonte,
                               b.eeg, b.apport_vertical)

\* one to three bands with a non-zero share of the watershed, and the
\* shelves of EntreesFonteGlace
EntreesGlaceMdj ==
    {[fonction |-> "mdj_alt", n |-> n, eeg |-> e, neige |-> g,
      froid |-> c, potentiel_fonte |-> f] :
        n \in {1, 2, 3},
        e \in UNION {[d -> {1784, 3568}] : d \in SUBSET (1..MaxSupp)},
        g \in BOOLEAN, c \in BOOLEAN, f \in {0, 500, 2000}}

appel_glace_mdj_alt ==
    /\ pc = "appel"
    /\ appel.fonction = "mdj_alt"
    /\ \E r \in {glace_bandes(0, appel.n, appel.neige, appel.froid,
                              appel.potentiel_fonte, appel.eeg,
                              apport_interception)} :
           /\ etat' = [eeg |-> r.eeg]
           /\ s' = [apport_vertical |-> r.apport_vertical]
           /\ erreur' = r.erreur
    /\ pc' = "retour"
    /\ UNCHANGED <<projet, projet0, i_pas, pas, tas, etat_avant, appel,
                   termines, etats, deltas>>

InitGlaceMdj ==
    /\ Repos
    /\ pc = "appel"
    /\ appel \in EntreesGlaceMdj
    /\ etat = [eeg |-> appel.eeg]
    /\ etat_avant = [etat |-> <<>>, tas |-> <<>>]
    /\ s = <<>>

NextGlaceMdj == appel_glace_mdj_alt

SpecGlaceMdj == InitGlaceMdj /\ [][NextGlaceMdj]_vars

\* C26: with een in {mdj, alt} and n bands, the energy budget of the ice
\* is evaluated once per step, at the last band: when eeg holds ice and
\* the budget of that band yields melt, eeg decreases and the melt is
\* added to apport_vertical[4].
C26_FonteDerniereBande ==
    (/\ pc = "retour"
     /\ appel.fonction = "mdj_alt"
     /\ ~appel.froid
     /\ appel.potentiel_fonte > 0
     /\ \E i \in DOMAIN appel.eeg : appel.eeg[i] > 0) =>
        /\ erreur = Aucune
        /\ SommeEeg(etat.eeg) < SommeEeg(appel.eeg)
        /\ s.apport_vertical[5] - apport_interception[5] =
               SommeEeg(appel.eeg) - SommeEeg(etat.eeg)

-----------------------------------------------------------------------------
(* hsami2_noyau.py, hsami2.py: the latitude of the physiography *)

MaxAppels == 3

\* x * pi / 180, x and the result in millionths
radians(x) == ((x \div 180) * 355) \div 113

\* the pre-processing of the driver on a project: the latitude held by
\* projet["physio"] is overwritten with its conversion
conversion_latitude(p) ==
    IF "physio" \in DOMAIN p /\ "latitude" \in DOMAIN p.physio
    THEN [p EXCEPT !.physio.latitude = radians(@)]
    ELSE p

\* a call of the driver by a program that holds the project: the driver
\* works on the dict projet["physio"] itself
appel_hsami2_noyau ==
    /\ pc = "latitude"
    /\ i_pas < MaxAppels
    /\ \E p \in {conversion_latitude(projet)} :
           /\ projet' = p
           /\ s' = [latitude |-> p.physio.latitude]
    /\ appel' = [fonction |-> "hsami2_noyau"]
    /\ i_pas' = i_pas + 1
    /\ UNCHANGED <<projet0, pc, erreur, pas, etat, tas, etat_avant,
                   termines, etats, deltas>>

\* a step of the loops of hsami2: the driver is handed copy(physio), so
\* that the conversion is written in the copy
pas_hsami2 ==
    /\ pc = "latitude"
    /\ i_pas < MaxAppels
    /\ \E p \in {conversion_latitude([physio |-> projet.physio])} :
           s' = [latitude |-> p.physio.latitude]
    /\ appel' = [fonction |-> "hsami2"]
    /\ i_pas' = i_pas + 1
    /\ UNCHANGED <<projet, projet0, pc, erreur, pas, etat, tas, etat_avant,
                   termines, etats, deltas>>

\* projects whose latitude is given in degrees, as the driver documents
InitLatitude ==
    /\ projet \in {[Projet(Base) EXCEPT !.physio.latitude = d * 1000000] :
                      d \in {0, 10, 20, 30, 40, 45, 50, 60, 70, 80}}
    /\ projet0 = projet
    /\ pc = "latitude"
    /\ erreur = Aucune
    /\ i_pas = 0
    /\ pas = 1
    /\ etat = <<>>
    /\ tas = <<>>
    /\ etat_avant = [etat |-> <<>>, tas |-> <<>>]
    /\ appel = <<>>
    /\ termines = 0
    /\ s = <<>>
    /\ etats = <<>>
    /\ deltas = <<>>

NextLatitude == appel_hsami2_noyau \/ pas_hsami2

SpecLatitude == InitLatitude /\ [][NextLatitude]_vars

\* C27: physio.latitude is converted from degrees to radians exactly once:
\* a latitude already converted is not converted again when the driver is
\* called for a later step with the same physiography, so that every step
\* works with the same latitude in radians.
C27_LatitudeUneFois ==
    (pc = "latitude" /\ i_pas > 0) =>
        s.latitude = radians(projet0.physio.latitude)

\* a step of hsami2 on a project the driver has not been called with: the
\* latitude of the step is the conversion of the one of the project
C27_Temoin ==
    /\ pc = "latitude"
    /\ i_pas = MaxAppels
    /\ appel.fonction = "hsami2"
    /\ projet = projet0
    /\ projet.physio.latitude > 0
    /\ s.latitude = radians(projet0.physio.latitude)

-----------------------------------------------------------------------------
(* hsami_interception.py: the snow on the ground in dj_hsami *)

MaxPasNeige == 2

\* delta, the water that leaves a snow cover holding more than a tenth of
\* liquid water
percolation_eau_fonte(neige_au_sol, neige_au_sol_totale, fonte, fonte_totale) ==
    LET delta == ((10 * fonte - neige_au_sol) * 10) \div 90
    IN  IF 10 * fonte - neige_au_sol <= 0
        THEN [lame |-> 0, neige_au_sol |-> neige_au_sol,
              neige_au_sol_totale |-> neige_au_sol_totale,
              fonte |-> fonte, fonte_totale |-> fonte_totale]
        ELSE IF delta >= neige_au_sol
        THEN [lame |-> neige_au_sol, neige_au_sol |-> 0,
              neige_au_sol_totale |-> 0, fonte |-> fonte,
              fonte_totale |-> fonte_totale]
        ELSE [lame |-> delta, neige_au_sol |-> neige_au_sol - delta,
              neige_au_sol_totale |-> neige_au_sol_totale,
              fonte |-> fonte - delta, fonte_totale |-> fonte_totale]

\* the freezing of the liquid water of the snow: 2.54**2 * 0.072 cm2 per
\* degree and per day, over the snow on the ground; degres is -dt_max
gel_neige(degres, neige_au_sol, fonte, fonte_totale) ==
    LET delta == (4645 * degres) \div neige_au_sol
    IN  IF fonte < delta THEN [fonte |-> 0, fonte_totale |-> 0]
        ELSE [fonte |-> fonte - delta, fonte_totale |-> fonte_totale - delta]

\* The snow of one step of dj_hsami.  e holds neige_au_sol, nas_tot, fonte
\* and fonte_tot; c holds the step: froid (dt_max < 0) with degres =
\* -dt_max, pluie, neige, the snow survey releve of the sixth column of
\* the row (NaN without survey), evaporation = demande_eau *
\* efficacite_evapo_hiver and potentiel, the melt of a fully covered
\* watershed (day, night and heat of the rain); numpy tells whether the
\* row of meteo holds numpy floats, whose division by zero yields inf or
\* nan, and then the smallest area 0.1, where that of Python floats
\* raises.  division tells whether the step has divided by
\* neige_au_sol_totale, diviseur by what.
neige_dj_hsami(een, e, c) ==
    LET releve == c.releve # NaN /\ c.releve >= 0
        nas0 == (IF releve THEN c.releve ELSE e.neige_au_sol) + c.neige
        tot0 == (IF releve
                 THEN c.releve + (e.nas_tot - e.neige_au_sol)
                 ELSE e.nas_tot) + c.neige
        Fin(x, division, diviseur) ==
            [erreur |-> Aucune, division |-> division,
             diviseur |-> diviseur,
             etat |-> [neige_au_sol |-> x.neige_au_sol,
                       nas_tot |-> x.neige_au_sol_totale,
                       fonte |-> x.fonte, fonte_tot |-> x.fonte_totale]]
        Vide == [neige_au_sol |-> 0, neige_au_sol_totale |-> 0,
                 fonte |-> 0, fonte_totale |-> 0]
        \* il fait froid
        Froid ==
            LET nas1 == nas0 + c.pluie
                tot1 == tot0 + c.pluie
                fonte1 == e.fonte + c.pluie
                ftot1 == e.fonte_tot + c.pluie
                sublime == c.evaporation < nas1
                nas2 == IF sublime THEN nas1 - c.evaporation ELSE 0
                tot2 == IF sublime THEN tot1 ELSE 0
            IN  IF nas2 > 2
                THEN LET g == gel_neige(c.degres, nas2, fonte1, ftot1)
                     IN  IF g.fonte > 0
                         THEN Fin(percolation_eau_fonte(nas2, tot2, g.fonte,
                                                        g.fonte_totale),
                                  FALSE, 0)
                         ELSE Fin([neige_au_sol |-> nas2,
                                   neige_au_sol_totale |-> tot2,
                                   fonte |-> g.fonte,
                                   fonte_totale |-> g.fonte_totale],
                                  FALSE, 0)
                ELSE Fin([neige_au_sol |-> nas2, neige_au_sol_totale |-> tot2,
                          fonte |-> fonte1, fonte_totale |-> ftot1],
                         FALSE, 0)
        \* il fait chaud, avec de la neige au sol
        Chaud ==
            LET aire_enneigee ==
                    IF tot0 = 0 THEN 10
                    ELSE Max(10,
                             Min(100 - (100 * e.fonte_tot) \div tot0, 100))
                neige_fondue == Fraction(c.potentiel, aire_enneigee)
                Hsami ==
                    LET pme == Fraction(c.pluie - c.evaporation,
                                        aire_enneigee)
                        fondue == neige_fondue + pme
                    IN  [neige_au_sol |-> Max(nas0 + pme, 0),
                         neige_au_sol_totale |-> tot0 + pme,
                         fonte |-> IF fondue > 0 THEN e.fonte + fondue
                                   ELSE e.fonte,
                         fonte_totale |->
                             IF fondue > 0 THEN e.fonte_tot + fondue
                             ELSE e.fonte_tot]
                Dj ==
                    LET solide0 == nas0 - e.fonte
                        gele == neige_fondue < 0
                        fonte1 ==
                            IF gele
                            THEN Max(e.fonte + neige_fondue, 0)
                            ELSE e.fonte + Min(neige_fondue, solide0)
                        solide1 ==
                            IF gele
                            THEN solide0 + Min(0 - neige_fondue, e.fonte)
                            ELSE solide0 - Min(neige_fondue, solide0)
                        demande == Fraction(c.evaporation, aire_enneigee)
                        pluie_sur_neige == Fraction(c.pluie, aire_enneigee)
                        \* the demand is met by the rain, the liquid water
                        \* and the solid snow, in that order
                        reste1 == Max(demande - pluie_sur_neige, 0)
                        pluie1 == Max(pluie_sur_neige - demande, 0)
                        reste2 == Max(reste1 - fonte1, 0)
                        fonte2 == Max(fonte1 - reste1, 0)
                        solide2 == Max(solide1 - reste2, 0)
                    IN  [neige_au_sol |-> solide2 + fonte2 + pluie1,
                         neige_au_sol_totale |-> tot0,
                         fonte |-> fonte2 + pluie1,
                         fonte_totale |-> e.fonte_tot]
                x == IF een = "hsami" THEN Hsami ELSE Dj
            IN  IF x.fonte < x.neige_au_sol
                THEN Fin(percolation_eau_fonte(x.neige_au_sol,
                             x.neige_au_sol_totale, x.fonte,
                             x.fonte_totale),
                         TRUE, tot0)
                ELSE Fin(Vide, TRUE, tot0)
    IN  IF c.froid THEN Froid
        ELSE IF nas0 > 0
        THEN IF tot0 = 0 /\ ~c.numpy
             THEN [erreur |-> Exception("ZeroDivisionError",
                                        "hsami_interception.py:408"),
                   division |-> TRUE, diviseur |-> 0, etat |-> e]
             ELSE Chaud
        ELSE Fin([neige_au_sol |-> nas0, neige_au_sol_totale |-> tot0,
                  fonte |-> e.fonte, fonte_totale |-> e.fonte_tot],
                 FALSE, 0)

\* the steps: cold or warm, with or without rain, snowfall, snow survey,
\* evaporation and melt
EntreesNeige ==
    {[fonction |-> "dj_hsami", froid |-> f, degres |-> 5, pluie |-> p,
      neige |-> n, releve |-> r, evaporation |-> d, potentiel |-> m,
      numpy |-> np] :
        f \in BOOLEAN, p \in {0, 200}, n \in {0, 900}, r \in {NaN, 100},
        d \in {0, 50}, m \in {0, 300}, np \in BOOLEAN}

appel_dj_hsami ==
    /\ pc = "neige"
    /\ i_pas < MaxPasNeige
    /\ \E c \in EntreesNeige :
         \E r \in {neige_dj_hsami(projet.modules.een, etat, c)} :
           /\ appel' = c
           /\ etat_avant' = [etat |-> etat, tas |-> <<>>]
           /\ etat' = r.etat
           /\ s' = [division |-> r.division, diviseur |-> r.diviseur]
           /\ erreur' = r.erreur
           /\ pc' = IF r.erreur # Aucune THEN "erreur" ELSE pc
    /\ i_pas' = i_pas + 1
    /\ UNCHANGED <<projet, projet0, pas, tas, termines, etats, deltas>>

\* the lumped snow modules on a watershed without snow
InitNeige ==
    /\ projet \in {[Projet(Base) EXCEPT !.modules.een = e] :
                      e \in {"hsami", "dj"}}
    /\ projet0 = projet
    /\ pc = "neige"
    /\ erreur = Aucune
    /\ i_pas = 0
    /\ pas = 1
    /\ etat = [neige_au_sol |-> 0, nas_tot |-> 0, fonte |-> 0,
               fonte_tot |-> 0]
    /\ tas = <<>>
    /\ etat_avant = [etat |-> <<>>, tas |-> <<>>]
    /\ appel = <<>>
    /\ termines = 0
    /\ s = <<>>
    /\ etats = <<>>
    /\ deltas = <<>>

NextNeige == appel_dj_hsami

SpecNeige == InitNeige /\ [][NextNeige]_vars

\* C28: in the lumped snow modules (een in {hsami, dj}) the computation of
\* the snow-covered area never divides by a zero nas_tot: on every warm
\* step with snow on the ground, nas_tot is not zero where
\* fonte_tot / nas_tot is computed.
C28_NasTotNonNul ==
    (pc \in {"neige", "erreur"} /\ i_pas > 0 /\ s.division) =>
        s.diviseur # 0

\* a warm step has computed the snow-covered area of a watershed under
\* snow that has already melted in part
C28_Temoin ==
    /\ pc = "neige"
    /\ i_pas > 0
    /\ s.division
    /\ s.diviseur > 0
    /\ etat_avant.etat.fonte_tot > 0
    /\ etat.neige_au_sol > 0

-----------------------------------------------------------------------------
(* hsami_ecoulement_vertical.py: the hours of the percolation of a day *)

MaxNbPas == 25

\* the layers of ecoulement_3couches: conductivities, exponents, bounds and
\* thicknesses
couches(param_) ==
    [ks |-> <<100 * Puissance10(param_[24]), 100 * Puissance10(param_[38])>>,
     c |-> <<2 * param_[36] + 3, 2 * param_[37] + 3>>,
     sol_max |-> <<Fraction(param_[39], param_[44]),
                  Fraction(param_[40], param_[45]), param_[13]>>,
     sol_min |-> <<Fraction(param_[39], param_[42]),
                  Fraction(param_[40], param_[43])>>,
     z |-> <<param_[39], param_[40]>>, portion |-> param_[14]]

\* one pass of the body of `for i_p in range(0, pas_1h)`; i_pas is i_p,
\* termines counts the passes of the day
heure_percolation ==
    /\ pc = "percolation"
    /\ i_pas < 24 \div projet.nb_pas_par_jour
    /\ etat' = Heure(etat, couches(param_3couches))
    /\ i_pas' = i_pas + 1
    /\ termines' = termines + 1
    /\ UNCHANGED <<projet, projet0, pc, erreur, pas, tas, etat_avant, appel,
                   s, etats, deltas>>

\* the range is exhausted: the step ends with the drainage of the water
\* table (qbase = hsami), nothing infiltrating and nothing being pumped on a
\* day without offer or demand, and the next step of the day enters the
\* loop; s.pas_1h is the number of passes of the loop of the step
sortie_percolation ==
    /\ pc = "percolation"
    /\ i_pas = 24 \div projet.nb_pas_par_jour
    /\ s' = [pas_1h |-> i_pas, pas |-> pas]
    /\ etat' = [sol |-> [etat.sol EXCEPT
                           ![3] = @ - (@ * param_3couches[17])
                                          \div (100 * projet.nb_pas_par_jour)],
                apport1 |-> 0, recharge |-> 0]
    /\ i_pas' = 0
    /\ IF pas = projet.nb_pas_par_jour
       THEN pc' = "jour" /\ pas' = pas
       ELSE pc' = pc /\ pas' = pas + 1
    /\ UNCHANGED <<projet, projet0, erreur, tas, etat_avant, appel,
                   termines, etats, deltas>>

\* the first step of a day, for every number of steps of the day, on
\* layers between their bounds
InitPercolation ==
    /\ projet \in {[Projet(Base) EXCEPT !.nb_pas_par_jour = n,
                                       !.modules.sol = "3couches"] :
                      n \in 1..MaxNbPas}
    /\ projet0 = projet
    /\ pc = "percolation"
    /\ erreur = Aucune
    /\ i_pas = 0
    /\ pas = 1
    /\ etat \in {[sol |-> <<x, 1000, w>>, apport1 |-> 0, recharge |-> 0] :
                    x \in {sol_min_3couches[1], 700}, w \in {0, 500}}
    /\ tas = <<>>
    /\ etat_avant = [etat |-> <<>>, tas |-> <<>>]
    /\ appel = <<>>
    /\ termines = 0
    /\ s = <<>>
    /\ etats = <<>>
    /\ deltas = <<>>

NextPercolation == heure_percolation \/ sortie_percolation

SpecPercolation == InitPercolation /\ [][NextPercolation]_vars

\* C29: in the three-layer soil, for every nb_pas_par_jour >= 1, the
\* percolation loop of a step ends after exactly 24 / nb_pas passes of one
\* hour, so that the nb_pas steps of a day perform 24 passes together.
C29_VingtQuatreHeures ==
    /\ (pc \in {"percolation", "jour"} /\ s # <<>>) =>
           s.pas_1h * projet.nb_pas_par_jour = 24
    /\ pc = "jour" => termines = 24

\* a day of four steps has ended, each step after six passes of the loop
C29_Temoin ==
    /\ pc = "jour"
    /\ projet.nb_pas_par_jour = 4
    /\ s.pas_1h = 6
    /\ termines = 24


\* C30: in the one-layer soil, at the end of every step of the vertical
\* flow nappe <= nappe_max (param[13]): the water that would raise the
\* water table above nappe_max during the step, the overflow and the
\* percolation of the soil added after the drainage of the water table
\* included, is spilled to apport[2].
C30_NappeSousMax ==
    (pc = "retour" /\ appel.fonction = "hsami_ecoulement_vertical"
        /\ appel.sol = "hsami" /\ erreur = Aucune) =>
        etat.nappe <= param_3couches[13]

\* the drainage of the water table has spilled what exceeded nappe_max,
\* and the soil has percolated afterwards
C30_Temoin ==
    /\ pc = "retour"
    /\ appel.fonction = "hsami_ecoulement_vertical"
    /\ appel.sol = "hsami"
    /\ erreur = Aucune
    /\ etat.sol[1] < appel.etat.sol[1]
    /\ etat.nappe > 0

=============================================================================
